---- MODULE Spec2Model ----
(***************************************************************************)
(* The xstate transition engine (packages/core/src/StateNode.ts and        *)
(* nodeUtils.ts) as a state machine.  A machine of the catalogue below is  *)
(* constructed; the operations are the calls a client makes on it:         *)
(* machine.initialState, machine.transition(state, event),                 *)
(* machine.transition(stateValue, event), machine.resolveState,            *)
(* machine.withConfig(options) and machine.withContext(context).           *)
(*                                                                         *)
(* A state value (string | {key: value}) is a sequence of leaf entries in  *)
(* key order, [p |-> path, t |-> tag]: the tag is "str" for a string leaf, *)
(* "obj" for a key bound to the empty object {} and "undef" for the value  *)
(* undefined.  A configuration is a sequence of node ids without           *)
(* repetition, in the insertion order of the JavaScript Set or array it    *)
(* models.                                                                 *)
(***************************************************************************)
EXTENDS Integers, Sequences, FiniteSets, TLC

VARIABLES
  machine,  \* id of the root StateNode under test
  idMap,    \* machine.idMap: the StateNode objects the constructor built, by id
  context,  \* machine.context, the initial extended state
  options,  \* machine.options: per registry, the set of <<name, implementation>>
  cache,    \* nodes whose __cache.transitions is set (their `after` is lowered)
  cur,      \* <<>> or <<S>>: the State object the client holds
  last,     \* record of the last call: operation, event, input, error, microsteps
  service   \* the Interpreter of the machine and its SimulatedClock

vars == <<machine, idMap, context, options, cache, cur, last, service>>
----------------------------------------------------------------------------
(* Bounds of the exploration *)

MaxCount == 3
MaxDepth == 3
\* calls of Interpreter.send on the stack, timers registered, and the clock
MaxSends == 8
MaxTimers == 2
MaxNow == 1500

----------------------------------------------------------------------------
(* Sequence helpers (utils.ts: flatten, keys, partition, toArray) *)

Range(s) == {s[i] : i \in 1..Len(s)}

RECURSIVE flatten(_)
flatten(ss) == IF ss = <<>> THEN <<>> ELSE Head(ss) \o flatten(Tail(ss))

has(s, x) == \E i \in 1..Len(s) : s[i] = x

\* Set.add of every element of xs, in order
RECURSIVE addAll(_, _)
addAll(configuration, xs) ==
  IF xs = <<>> THEN configuration
  ELSE addAll(IF has(configuration, Head(xs)) THEN configuration
              ELSE Append(configuration, Head(xs)), Tail(xs))

\* new Set(s): insertion-ordered, the first occurrence of every element is kept
uniq(s) == addAll(<<>>, s)

\* const x = v; F(x): v is evaluated once
With(v, F(_)) == CHOOSE y \in {F(x) : x \in {v}} : TRUE

----------------------------------------------------------------------------
(* Action objects (actions.ts, actionTypes.ts) *)

\* actionTypes.ts: enum ActionTypes
ActionTypes ==
  [Assign |-> "xstate.assign", Raise |-> "xstate.raise", Send |-> "xstate.send",
   Cancel |-> "xstate.cancel", Start |-> "xstate.start", Stop |-> "xstate.stop",
   Update |-> "xstate.update", Log |-> "xstate.log"]
NULL_EVENT == ""
WILDCARD == "*"
Internal == "#_internal"
DEFAULT_GUARD_TYPE == "xstate.guard"

Act(type) ==
  [type |-> type, arg |-> "", delay |-> <<>>, to |-> "", id |-> "", value |-> <<>>]
assign(name) == [Act(ActionTypes.Assign) EXCEPT !.arg = name]
raise(ev) == [Act(ActionTypes.Raise) EXCEPT !.arg = ev]
send(ev, delay) == [Act(ActionTypes.Send) EXCEPT !.arg = ev, !.delay = delay, !.id = ev]
cancel(sendId) == [Act(ActionTypes.Cancel) EXCEPT !.arg = sendId]
start(actor) == [Act(ActionTypes.Start) EXCEPT !.arg = actor]
stop(actor) == [Act(ActionTypes.Stop) EXCEPT !.arg = actor]

after(delayRef, id) == "xstate.after(" \o ToString(delayRef) \o ")#" \o id
done(id) == "done.state." \o id

----------------------------------------------------------------------------
(* The catalogue of machine configurations (StateNodeConfig values) *)

Rel(path) == [hash |-> FALSE, dot |-> FALSE, path |-> path]
Dot(path) == [hash |-> FALSE, dot |-> TRUE, path |-> path]
\* the target '#id'
Hash(id) == [hash |-> TRUE, dot |-> FALSE, path |-> <<id>>]

NoCond == [type |-> "", predicate |-> ""]
Pred(name) == [type |-> DEFAULT_GUARD_TYPE, predicate |-> name]

\* one entry of config.on: event, target(s), cond, actions, explicit internal flag
On(ev, tgts, cond, acts) ==
  [event |-> ev, target |-> tgts, hasTarget |-> TRUE, cond |-> cond,
   actions |-> acts, internal |-> "unset", in |-> ""]
OnTo(ev, key) == On(ev, <<Rel(<<key>>)>>, NoCond, <<>>)
OnDo(ev, cond, acts) ==
  [event |-> ev, target |-> <<>>, hasTarget |-> FALSE, cond |-> cond,
   actions |-> acts, internal |-> "unset", in |-> ""]

Base(id, key, parent) ==
  [id |-> id, key |-> key, parent |-> parent, type |-> "atomic", initial |-> "",
   states |-> <<>>, entry |-> <<>>, exit |-> <<>>, on |-> <<>>, after |-> <<>>,
   invoke |-> <<>>, history |-> "", target |-> <<>>, strict |-> FALSE,
   onArray |-> FALSE, configId |-> ""]
Leaf(id, key, parent, on) == [Base(id, key, parent) EXCEPT !.on = on]
Comp(id, key, parent, initial, states, on) ==
  [Base(id, key, parent) EXCEPT !.type = "compound", !.initial = initial,
                                !.states = states, !.on = on]
WithActs(n) == [n EXCEPT !.entry = <<Act("enter_" \o n.key)>>,
                         !.exit = <<Act("exit_" \o n.key)>>]

\* test/dfa.test.ts lightMachine
LightCfg == <<
  Comp("light", "light", "", "green", <<"green", "yellow", "red">>, <<>>),
  Leaf("light.green", "green", "light",
       <<OnTo("TIMER", "yellow"), OnTo("POWER_OUTAGE", "red")>>),
  Leaf("light.yellow", "yellow", "light",
       <<OnTo("TIMER", "red"), OnTo("POWER_OUTAGE", "red")>>),
  Comp("light.red", "red", "light", "walk", <<"walk", "wait", "stop">>,
       <<OnTo("TIMER", "green"), OnTo("POWER_OUTAGE", "red")>>),
  Leaf("light.red.walk", "walk", "light.red", <<OnTo("PED_COUNTDOWN", "wait")>>),
  Leaf("light.red.wait", "wait", "light.red", <<OnTo("PED_COUNTDOWN", "stop")>>),
  Leaf("light.red.stop", "stop", "light.red", <<>>) >>

\* docs/guides/guards.md door machine, with a guard given by a name that
\* the machine's options do not define (cond: 'isKnown')
DoorCfg == <<
  Comp("door", "door", "", "closed", <<"closed", "opened">>, <<>>),
  Comp("door.closed", "closed", "door", "idle", <<"idle", "error">>,
       << On("OPEN", <<Rel(<<"opened">>)>>, Pred("isAdmin"), <<>>),
          On("OPEN", <<Rel(<<"closed", "error">>)>>, NoCond, <<>>),
          OnTo("KNOCK", "opened") >>),
  Leaf("door.closed.idle", "idle", "door.closed",
       << On("KNOCK", <<Rel(<<"error">>)>>,
             [type |-> "isKnown", predicate |-> ""], <<Act("known")>>),
          OnTo("KNOCK", "error") >>),
  Leaf("door.closed.error", "error", "door.closed", <<>>),
  Leaf("door.opened", "opened", "door", <<OnTo("CLOSE", "closed")>>) >>

\* a compound root with a parallel child: two regions, entry and exit actions
ParCfg == <<
  Comp("par", "par", "", "off", <<"off", "on">>, <<>>),
  WithActs(Leaf("par.off", "off", "par", <<OnTo("ON", "on")>>)),
  WithActs([Base("par.on", "on", "par") EXCEPT
     !.type = "parallel", !.states = <<"A", "B">>,
     !.on = << OnDo("X", NoCond, <<Act("onX")>>), OnTo("OFF", "off"),
               OnTo("RESET", "on") >>]),
  WithActs(Comp("par.on.A", "A", "par.on", "a1", <<"a1", "a2">>,
     << OnDo("Z", NoCond, <<Act("zA")>>) >>)),
  WithActs(Leaf("par.on.A.a1", "a1", "par.on.A",
     << On("X", <<Rel(<<"a2">>)>>, NoCond, <<Act("xA")>>), OnTo("Z", "a2") >>)),
  WithActs(Leaf("par.on.A.a2", "a2", "par.on.A", <<>>)),
  WithActs(Comp("par.on.B", "B", "par.on", "b1", <<"b1", "b2">>, <<>>)),
  WithActs(Leaf("par.on.B.b1", "b1", "par.on.B",
     << OnTo("Y", "b2"), On("Z", <<Rel(<<"b2">>)>>, NoCond, <<Act("zB")>>) >>)),
  WithActs(Leaf("par.on.B.b2", "b2", "par.on.B",
     << OnTo("Y", "b1"),
        [OnTo("W", "b1") EXCEPT !.in = "par.on.A.a2"],
        OnDo("W", NoCond, <<Act("wB")>>) >>)) >>

\* test/delay.test.ts lightMachine (id 'dl' here): delayed transitions
AfterTo(delay, key) ==
  [delay |-> delay, target |-> <<Rel(<<key>>)>>, hasTarget |-> TRUE,
   cond |-> NoCond, actions |-> <<>>, internal |-> "unset", in |-> ""]
DelayCfg == <<
  Comp("dl", "dl", "", "green", <<"green", "yellow", "red">>, <<>>),
  [Base("dl.green", "green", "dl") EXCEPT !.after = <<AfterTo(1000, "yellow")>>],
  [Base("dl.yellow", "yellow", "dl") EXCEPT !.after = <<AfterTo(1000, "red")>>],
  [Base("dl.red", "red", "dl") EXCEPT !.after = <<AfterTo(1000, "green")>>] >>

\* eventless and raised transitions, an invoked service, a final state
RtcCfg == <<
  Comp("rtc", "rtc", "", "idle", <<"idle", "full", "work", "ready", "fin">>,
       <<OnTo("RESTART", "idle")>>),
  Leaf("rtc.idle", "idle", "rtc",
     << OnDo("INC", NoCond, <<assign("inc")>>),
        On(NULL_EVENT, <<Rel(<<"full">>)>>, Pred("countIsMax"), <<>>) >>),
  Leaf("rtc.full", "full", "rtc",
     << On("GO", <<Rel(<<"work">>)>>, NoCond, <<raise("STEP"), Act("goAct")>>),
        On("GO2", <<Rel(<<"work">>)>>, NoCond,
           <<[send("STEP", <<>>) EXCEPT !.to = Internal],
             [Act(ActionTypes.Log) EXCEPT !.arg = "count"],
             assign("reset"), assign("inc")>>) >>),
  Leaf("rtc.work", "work", "rtc",
     << OnTo("STEP", "ready"),
        OnDo("QUIT", NoCond, <<raise("STEP"), raise("FINISH"), raise("RESTART")>>) >>),
  [Base("rtc.ready", "ready", "rtc") EXCEPT
     !.invoke = <<"svc">>,
     !.on = << OnDo("PING", NoCond, <<Act("ping")>>),
               On("FINISH", <<Rel(<<"fin">>)>>, NoCond, <<raise("STEP")>>),
               On("BACK", <<Rel(<<"idle">>)>>, NoCond, <<assign("reset")>>) >>],
  [Base("rtc.fin", "fin", "rtc") EXCEPT !.type = "final"] >>

\* a compound state with a shallow and a deep history child (test/index.js,
\* 'should respect the history mechanism'), internal and external transitions
\* into its own subtree, and raised events
Hist(id, key, parent, history) ==
  [Base(id, key, parent) EXCEPT !.type = "history", !.history = history]
HistCfg == <<
  Comp("h", "h", "", "off", <<"off", "on">>, <<>>),
  Leaf("h.off", "off", "h",
     << OnTo("TICK", "off"),
        On("POWER", <<Rel(<<"on", "hist">>)>>, NoCond, <<>>),
        On("DEEP", <<Rel(<<"on", "deep">>)>>, NoCond, <<>>) >>),
  WithActs(Comp("h.on", "on", "h", "first", <<"first", "second", "hist", "deep">>,
     << OnTo("OFF", "off"),
        On("INT", <<Dot(<<"second">>)>>, NoCond, <<Act("int")>>),
        [On("INT2", <<Rel(<<"on", "first">>)>>, NoCond, <<>>)
           EXCEPT !.internal = "true"],
        On("EXT", <<Rel(<<"on", "second">>)>>, NoCond, <<Act("ext")>>),
        [On("EXT2", <<Dot(<<"first">>)>>, NoCond, <<>>)
           EXCEPT !.internal = "false"] >>)),
  WithActs(Leaf("h.on.first", "first", "h.on",
     << OnTo("SWITCH", "second"),
        On("GO", <<Rel(<<"second">>)>>, NoCond, <<raise("INNER")>>),
        OnDo("JUMP", NoCond, <<raise("SWITCH")>>) >>)),
  WithActs(Comp("h.on.second", "second", "h.on", "A", <<"A", "B">>, <<>>)),
  WithActs(Leaf("h.on.second.A", "A", "h.on.second", <<OnTo("INNER", "B")>>)),
  WithActs(Leaf("h.on.second.B", "B", "h.on.second", <<>>)),
  Hist("h.on.hist", "hist", "h.on", "shallow"),
  [Hist("h.on.deep", "deep", "h.on", "deep")
     EXCEPT !.target = <<[p |-> <<"second", "B">>, t |-> "str"]>>] >>

\* a strict machine: a parallel state whose regions end in final states, left
\* by its onDone transition for the final state of the machine, and a
\* transition that raises an event no state node handles
Final(id, key, parent) == [Base(id, key, parent) EXCEPT !.type = "final"]
FinCfg == <<
  [Comp("f", "f", "", "run", <<"run", "end">>, <<>>) EXCEPT !.strict = TRUE],
  [Base("f.run", "run", "f") EXCEPT
     !.type = "parallel", !.states = <<"A", "B">>,
     !.on = << OnTo("done.state.f.run", "end") >>],
  Comp("f.run.A", "A", "f.run", "a1", <<"a1", "af">>, <<>>),
  Leaf("f.run.A.a1", "a1", "f.run.A", <<OnTo("FA", "af"), OnTo("BOTH", "af"),
         OnDo("POKE", NoCond, <<raise("NOPE")>>)>>),
  Final("f.run.A.af", "af", "f.run.A"),
  Comp("f.run.B", "B", "f.run", "b1", <<"b1", "bf">>, <<>>),
  Leaf("f.run.B.b1", "b1", "f.run.B", <<OnTo("FB", "bf"), OnTo("BOTH", "bf")>>),
  Final("f.run.B.bf", "bf", "f.run.B"),
  Final("f.end", "end", "f") >>

\* eventless transitions that lead back to the state left, eventless
\* transitions that enable one another for ever, and a raised event that
\* assigns and raises another, followed by one that nothing handles
LoopCfg == <<
  Comp("lp", "lp", "", "a", <<"a", "b", "p", "q">>, <<>>),
  Leaf("lp.a", "a", "lp",
     << OnTo("HOP", "b"), OnTo("SPIN", "p"),
        OnDo("MID", NoCond, <<raise("R1"), raise("R2")>>),
        OnDo("R1", NoCond, <<assign("reset"), raise("R3")>>) >>),
  Leaf("lp.b", "b", "lp", <<OnTo(NULL_EVENT, "a")>>),
  Leaf("lp.p", "p", "lp", <<OnTo(NULL_EVENT, "q")>>),
  Leaf("lp.q", "q", "lp", <<OnTo(NULL_EVENT, "p")>>) >>

\* wildcard transitions: declared before a typed one in an `on` object (a),
\* before a typed one in an `on` array (b), and beside a delayed transition (c)
WildCfg == <<
  Comp("w", "w", "", "a", <<"a", "b", "c">>, <<>>),
  Leaf("w.a", "a", "w", <<OnTo(WILDCARD, "b"), OnTo("GO", "c")>>),
  [Leaf("w.b", "b", "w", <<OnTo(WILDCARD, "a"), OnTo("GO", "c")>>)
     EXCEPT !.onArray = TRUE],
  [Leaf("w.c", "c", "w", <<OnTo(WILDCARD, "b")>>)
     EXCEPT !.after = <<AfterTo(1000, "a")>>] >>

\* a machine whose compound state c declares no initial state
NoInitialCfg == <<
  Comp("ni", "ni", "", "a", <<"a", "c">>, <<>>),
  WithActs(Leaf("ni.a", "a", "ni",
     << OnTo("GO", "c"), On("IN", <<Rel(<<"c", "c2">>)>>, NoCond, <<>>) >>)),
  WithActs(Comp("ni.c", "c", "ni", "", <<"c1", "c2">>, <<OnTo("BACK", "a")>>)),
  WithActs(Leaf("ni.c.c1", "c1", "ni.c", <<OnTo("NEXT", "c2")>>)),
  WithActs(Leaf("ni.c.c2", "c2", "ni.c", <<OnTo("NEXT", "c1")>>)) >>

\* a machine in which two state nodes are given the same id, 'x'
DupCfg == <<
  Comp("du", "du", "", "home", <<"home", "left", "right">>, <<>>),
  WithActs(Leaf("du.home", "home", "du",
     << On("GO", <<Hash("x")>>, NoCond, <<>>), OnTo("LEFT", "left") >>)),
  WithActs([Leaf("du.left", "left", "du", <<OnTo("BACK", "home")>>)
              EXCEPT !.configId = "x"]),
  WithActs([Leaf("du.right", "right", "du", <<OnTo("BACK", "home")>>)
              EXCEPT !.configId = "x"]) >>

\* a machine whose root declares no initial state
NoRootInitialCfg == <<
  Comp("nr", "nr", "", "", <<"a", "b">>, <<OnTo("RESET", "a")>>),
  WithActs(Leaf("nr.a", "a", "nr", <<OnTo("GO", "b")>>)),
  WithActs(Leaf("nr.b", "b", "nr", <<OnTo("GO", "a")>>)) >>

\* a machine in which the state 'over' is two events from the initial state
\* through 'low' and three through 'high' and 'mid'
PathCfg == <<
  Comp("sp", "sp", "", "start", <<"start", "high", "low", "mid", "over", "end">>,
       <<>>),
  Leaf("sp.start", "start", "sp", <<OnTo("UP", "high"), OnTo("DOWN", "low")>>),
  Leaf("sp.high", "high", "sp", <<OnTo("ON", "mid")>>),
  Leaf("sp.low", "low", "sp", <<OnTo("CROSS", "over")>>),
  Leaf("sp.mid", "mid", "sp", <<OnTo("CROSS", "over")>>),
  Leaf("sp.over", "over", "sp", <<OnTo("FINISH", "end")>>),
  Leaf("sp.end", "end", "sp", <<>>) >>

\* the machine configurations a client constructs
Catalogue ==
  <<LightCfg, DoorCfg, ParCfg, DelayCfg, RtcCfg, HistCfg, FinCfg, LoopCfg,
    WildCfg, [DelayCfg EXCEPT ![1].strict = TRUE], PathCfg>>

----------------------------------------------------------------------------
(* new StateNode(config): the state-node tree and what the constructor and  *)
(* the lazy getters compute from the configuration cm (id -> config)        *)

configMap(cfg) ==
  [id \in {cfg[i].id : i \in 1..Len(cfg)} |->
     cfg[CHOOSE i \in 1..Len(cfg) : cfg[i].id = id]]

\* this.states[key] of node n
childOf(cm, n, key) == CHOOSE c \in DOMAIN cm : cm[c].parent = n /\ cm[c].key = key

\* this.path = parent.path.concat(key)
RECURSIVE pathTo(_, _)
pathTo(cm, n) ==
  IF cm[n].parent = "" THEN <<>> ELSE Append(pathTo(cm, cm[n].parent), cm[n].key)

\* the constructor's dfs: document order is the preorder of the tree
RECURSIVE dfs(_, _)
dfs(cm, n) ==
  <<n>> \o flatten([i \in 1..Len(cm[n].states) |->
                      dfs(cm, childOf(cm, n, cm[n].states[i]))])

RECURSIVE descend(_, _, _)
descend(cm, n, path) ==
  IF path = <<>> THEN n ELSE descend(cm, childOf(cm, n, Head(path)), Tail(path))

\* this.id = config.id || [machine.key, ...path].join(delimiter), the latter
\* being the name n of the node here
idOf(config, n) == IF config.configId # "" THEN config.configId ELSE n

\* getStateNodeById: fromStateNode itself if the id is its own, else the node
\* registered under the id in the idMap of the machine, which the constructor
\* fills child by child, each child before its descendants; Object.assign
\* keeps the node registered last
getStateNodeById(cm, fromStateNode, stateId) ==
  IF stateId = idOf(cm[fromStateNode], fromStateNode) THEN fromStateNode
  ELSE With(SelectSeq(Tail(dfs(cm, CHOOSE r \in DOMAIN cm : cm[r].parent = "")),
                      LAMBDA k : idOf(cm[k], k) = stateId),
            LAMBDA registered : registered[Len(registered)])

\* a '#id' target is looked up in the id map, a path is walked from n
getStateNodeByPath(cm, n, tgt) ==
  IF tgt.hash THEN getStateNodeById(cm, n, tgt.path[1])
  ELSE descend(cm, n, tgt.path)

resolveTarget(cm, n, targets) ==
  [i \in 1..Len(targets) |->
     IF targets[i].dot /\ cm[n].parent = "" THEN getStateNodeByPath(cm, n, targets[i])
     ELSE IF cm[n].parent # ""
     THEN getStateNodeByPath(cm, cm[n].parent,
            IF targets[i].dot
            THEN [targets[i] EXCEPT !.path = <<cm[n].key>> \o targets[i].path]
            ELSE targets[i])
     ELSE getStateNodeByPath(cm, n, targets[i])]

formatTransition(cm, n, cfg, eventType) ==
  [source |-> n, eventType |-> eventType,
   target |-> resolveTarget(cm, n, cfg.target), hasTarget |-> cfg.hasTarget,
   cond |-> cfg.cond, actions |-> cfg.actions, in |-> cfg.in,
   internal |-> IF cfg.internal # "unset" THEN cfg.internal = "true"
                ELSE IF cfg.hasTarget
                THEN \E i \in 1..Len(cfg.target) : cfg.target[i].dot
                ELSE TRUE]

getDelayedTransitions(cm, n) ==
  [i \in 1..Len(cm[n].after) |->
     formatTransition(cm, n, cm[n].after[i], after(cm[n].after[i].delay, n))]

formatTransitions(cm, n) ==
  With(IF cm[n].onArray THEN cm[n].on
       ELSE SelectSeq(cm[n].on, LAMBDA t : t.event # WILDCARD)
            \o SelectSeq(cm[n].on, LAMBDA t : t.event = WILDCARD),
       LAMBDA onConfig :
         [i \in 1..Len(onConfig) |->
            formatTransition(cm, n, onConfig[i], onConfig[i].event)]
         \o getDelayedTransitions(cm, n))

\* the StateNode object of n: its configuration, and key -> child id (child),
\* path, order and the formatted transitions (__cache.transitions)
StateNode(cm, doc, n) ==
  cm[n] @@ [child |-> [key \in Range(cm[n].states) |-> childOf(cm, n, key)],
            path |-> pathTo(cm, n),
            order |-> (CHOOSE i \in 1..Len(doc) : doc[i] = n) - 1,
            machine |-> doc[1],
            transitions |-> formatTransitions(cm, n)]

\* Machine(config): machine.idMap
Machine(cfg) ==
  With(configMap(cfg), LAMBDA cm :
    With(dfs(cm, cfg[1].id), LAMBDA doc :
      [n \in Range(doc) |-> StateNode(cm, doc, n)]))

----------------------------------------------------------------------------
(* The state-node tree of the machine under test *)

Node(id) == idMap[id]

parentOf(n) == Node(n).parent
machineOf(n) == Node(n).machine
pathOf(n) == Node(n).path
order(n) == Node(n).order

getStateNode(n, key) == Node(n).child[key]

getChildren(n) == [i \in 1..Len(Node(n).states) |-> getStateNode(n, Node(n).states[i])]

isLeafNode(n) == Node(n).type \in {"atomic", "final"}

NodesOf(m) == DOMAIN idMap

\* this._transient: config.on has the null event
transient(n) == \E i \in 1..Len(Node(n).on) : Node(n).on[i].event = NULL_EVENT

RECURSIVE isAncestor(_, _)
\* a is a proper ancestor of n
isAncestor(a, n) ==
  /\ parentOf(n) # ""
  /\ (parentOf(n) = a \/ isAncestor(a, parentOf(n)))

\* __cache.transitions
transitions(n) == Node(n).transitions

getCandidates(n, eventName) ==
  SelectSeq(transitions(n), LAMBDA t :
    IF eventName = NULL_EVENT THEN t.eventType = eventName
    ELSE t.eventType = eventName \/ t.eventType = WILDCARD)

\* the delays of config.after, one per key
delaysOf(n) == uniq([i \in 1..Len(Node(n).after) |-> Node(n).after[i].delay])

\* mutateEntryExit: what the first read of n.after appends to n.entry and n.exit
\* n.entry and n.exit as they read when the nodes of c have their cache
\* filled: mutateEntryExit has pushed the send and the cancel of each delay
entryOf(n, c) ==
  Node(n).entry
  \o (IF n \in c
      THEN With(delaysOf(n), LAMBDA ds :
             [i \in 1..Len(ds) |-> send(after(ds[i], n), <<ds[i]>>)])
      ELSE <<>>)
exitOf(n, c) ==
  Node(n).exit
  \o (IF n \in c
      THEN With(delaysOf(n), LAMBDA ds :
             [i \in 1..Len(ds) |-> cancel(after(ds[i], n))])
      ELSE <<>>)

\* this.activities: the invocations of the node
activitiesOf(n) == Node(n).invoke

\* the nodes whose lazily computed transitions have a side effect on the node
Lowerable(m) == {n \in NodesOf(m) : n = m \/ Node(n).after # <<>>}

----------------------------------------------------------------------------
(* State values *)

Undef == <<[p |-> <<>>, t |-> "undef"]>>
EmptyObj == <<[p |-> <<>>, t |-> "obj"]>>
StrV(k) == <<[p |-> <<k>>, t |-> "str"]>>

isString(v) == Len(v) = 1 /\ v[1].t = "str" /\ Len(v[1].p) = 1
isUndef(v) == v = Undef
strOf(v) == v[1].p[1]

\* {[k]: w}
Prefix(k, w) == [i \in 1..Len(w) |-> [p |-> <<k>> \o w[i].p, t |-> w[i].t]]

\* Object.keys of an object value, in insertion order
keys(v) ==
  IF isString(v) \/ isUndef(v) \/ v = EmptyObj THEN <<>>
  ELSE uniq([i \in 1..Len(v) |-> v[i].p[1]])

\* v[k]
get(v, k) ==
  IF isString(v) \/ isUndef(v) \/ v = EmptyObj THEN Undef
  ELSE With(SelectSeq(v, LAMBDA e : e.p[1] = k), LAMBDA es :
         IF es = <<>> THEN Undef
         ELSE [i \in 1..Len(es) |-> [p |-> Tail(es[i].p), t |-> es[i].t]])

\* the object with the keys ks, in that order, and the values F(k)
MkObj(ks, F(_)) ==
  IF ks = <<>> THEN EmptyObj
  ELSE flatten([i \in 1..Len(ks) |-> Prefix(ks[i], F(ks[i]))])

\* utils.ts toStatePaths: the leaf paths of a value
toStatePaths(v) ==
  IF isUndef(v) THEN <<<<>>>> ELSE [i \in 1..Len(v) |-> v[i].p]

\* State.ts stateValuesEqual
RECURSIVE stateValuesEqual(_, _)
stateValuesEqual(a, b) ==
  IF a = b THEN TRUE
  ELSE IF isUndef(a) \/ isUndef(b) THEN FALSE
  ELSE IF isString(a) \/ isString(b) THEN a = b
  ELSE With(keys(a), LAMBDA aKeys :
         /\ Len(aKeys) = Len(keys(b))
         /\ \A i \in 1..Len(aKeys) :
              stateValuesEqual(get(a, aKeys[i]), get(b, aKeys[i])))

\* StateNode.initialStateValue
RECURSIVE initialStateValue(_)
initialStateValue(n) ==
  IF Node(n).type = "parallel"
  THEN LET ch == SelectSeq(Node(n).states,
                           LAMBDA k : Node(getStateNode(n, k)).type # "history")
       IN MkObj(ch, LAMBDA k :
                  LET iv == initialStateValue(getStateNode(n, k))
                  IN IF isUndef(iv) THEN EmptyObj ELSE iv)
  ELSE IF Node(n).initial # ""
  THEN LET c == getStateNode(n, Node(n).initial)
       IN IF isLeafNode(c) THEN StrV(Node(n).initial)
          ELSE Prefix(Node(n).initial, initialStateValue(c))
  ELSE Undef

\* a variant: only a missing value is replaced by the initial one
resolveMissing(n, stateValue) ==
  IF isUndef(stateValue) THEN initialStateValue(n) ELSE stateValue
\* StateNode.resolve
RECURSIVE resolve(_, _)
resolve(n, stateValue) ==
  With(initialStateValue(n), LAMBDA initial :
    IF isUndef(stateValue)
    THEN (IF isUndef(initial) THEN EmptyObj ELSE initial)
    ELSE CASE Node(n).type = "parallel" ->
                MkObj(keys(initial), LAMBDA k :
                  With(get(stateValue, k), LAMBDA sub :
                    resolve(getStateNode(n, k),
                            IF isUndef(sub) THEN get(initial, k) ELSE sub)))
           [] Node(n).type = "compound" ->
                IF isString(stateValue)
                THEN LET c == getStateNode(n, strOf(stateValue))
                     IN IF Node(c).type \in {"parallel", "compound"}
                        THEN Prefix(strOf(stateValue), initialStateValue(c))
                        ELSE stateValue
                ELSE IF keys(stateValue) = <<>>
                THEN (IF isUndef(initial) THEN EmptyObj ELSE initial)
                ELSE MkObj(keys(stateValue), LAMBDA k :
                       With(get(stateValue, k), LAMBDA sub :
                         IF isUndef(sub) THEN EmptyObj
                         ELSE resolve(getStateNode(n, k), sub)))
           [] OTHER -> stateValue)

\* nodeUtils.ts getStateNodes
RECURSIVE getStateNodes(_, _)
getStateNodes(n, stateValue) ==
  IF isUndef(stateValue) THEN <<>>
  ELSE IF isString(stateValue)
  THEN LET c == getStateNode(n, strOf(stateValue))
       IN IF Node(c).initial # ""
          THEN getStateNodes(n, Prefix(strOf(stateValue), StrV(Node(c).initial)))
          ELSE <<c>>
  ELSE With(keys(stateValue), LAMBDA ks :
         [i \in 1..Len(ks) |-> getStateNode(n, ks[i])]
         \o flatten([i \in 1..Len(ks) |->
                       getStateNodes(getStateNode(n, ks[i]), get(stateValue, ks[i]))]))

----------------------------------------------------------------------------
(* Guards and assigners of the catalogue (machine options and inline functions) *)

Contexts == [count : 0..MaxCount, isAdmin : BOOLEAN]

predicate(name, ctx) ==
  CASE name = "isAdmin" -> ctx.isAdmin
    [] name = "countIsMax" -> ctx.count >= MaxCount
    [] OTHER -> FALSE

\* machine.options.guards: the names it defines
guards(m) == {g[1] : g \in options.guards}

\* a variant: a guard the options do not define never throws
guardNeverFails(n, cond) == ""
\* "" for a guard that evaluates, else the error evaluateGuard throws
guardError(n, cond) ==
  IF cond = NoCond \/ cond.type = DEFAULT_GUARD_TYPE \/ cond.type \in guards(machineOf(n))
  THEN "" ELSE "GuardNotImplemented"

evaluateGuard(n, cond, ctx) ==
  IF cond.type = DEFAULT_GUARD_TYPE THEN predicate(cond.predicate, ctx)
  ELSE \E g \in options.guards : g[1] = cond.type /\ predicate(g[2], ctx)

assigner(name, ctx) ==
  CASE name = "inc" -> [ctx EXCEPT !.count = ctx.count + 1]
    [] name = "reset" -> [ctx EXCEPT !.count = 0]
    [] OTHER -> ctx

\* a variant: every assigner reads the context the microstep started from
lastAssignOnly(ctx, assignActions) ==
  IF assignActions = <<>> THEN ctx
  ELSE assigner(assignActions[Len(assignActions)].arg, ctx)
\* utils.ts updateContext: the assigners are folded over the context in order
RECURSIVE updateContext(_, _)
updateContext(ctx, assignActions) ==
  IF assignActions = <<>> THEN ctx
  ELSE updateContext(assigner(Head(assignActions).arg, ctx), Tail(assignActions))

----------------------------------------------------------------------------
(* History values: the entries [n, current] of the nested HistoryValue record *)

hvDefined(hv, n) == \E i \in 1..Len(hv) : hv[i].n = n
hvCurrent(hv, n) == hv[CHOOSE i \in 1..Len(hv) : hv[i].n = n].current

historyChildren(n) ==
  SelectSeq(getChildren(n), LAMBDA c : Node(c).history = "" /\ Node(c).states # <<>>)

\* nodeUtils.ts getHistoryValue
RECURSIVE getHistoryValue(_, _)
getHistoryValue(n, relativeStateValue) ==
  IF Node(n).states = <<>> THEN <<>>
  ELSE With(historyChildren(n), LAMBDA ch :
         <<[n |-> n,
            current |-> IF isUndef(relativeStateValue) THEN initialStateValue(n)
                        ELSE relativeStateValue]>>
         \o flatten([i \in 1..Len(ch) |->
              getHistoryValue(ch[i],
                IF isUndef(relativeStateValue) THEN Undef
                ELSE With(get(relativeStateValue, Node(ch[i]).key),
                          LAMBDA subStateValue :
                       IF isUndef(subStateValue) THEN initialStateValue(ch[i])
                       ELSE subStateValue))]))

\* utils.ts updateHistoryStates / updateHistoryValue
RECURSIVE updateHistoryStates(_, _, _)
updateHistoryStates(hist, n, stateValue) ==
  LET ch == SelectSeq(historyChildren(n), LAMBDA c : hvDefined(hist, c))
  IN flatten([i \in 1..Len(ch) |->
       With(get(stateValue, Node(ch[i]).key), LAMBDA own :
         With(IF isUndef(own) THEN hvCurrent(hist, ch[i]) ELSE own,
              LAMBDA subStateValue :
           <<[n |-> ch[i], current |-> subStateValue]>>
           \o updateHistoryStates(hist, ch[i], subStateValue)))])

updateHistoryValue(hist, m, stateValue) ==
  <<[n |-> m, current |-> stateValue]>> \o updateHistoryStates(hist, m, stateValue)

----------------------------------------------------------------------------
(* Target resolution (nodeUtils.ts) *)

historyTarget(n) == IF Node(n).target = <<>> THEN Undef ELSE Node(n).target

RECURSIVE getFromRelativePath(_, _), getInitialStateNodes(_), resolveHistory(_, _)
getFromRelativePath(n, relativePath) ==
  IF relativePath = <<>> THEN <<n>>
  ELSE LET childStateNode == getStateNode(n, Head(relativePath))
       IN IF Node(childStateNode).type = "history"
          THEN resolveHistory(childStateNode, <<>>)
          ELSE getFromRelativePath(childStateNode, Tail(relativePath))

\* a variant: the node itself, without the descent to its initial leaves
targetItself(n) == <<n>>
getInitialStateNodes(n) ==
  IF isLeafNode(n) THEN <<n>>
  ELSE IF Node(n).type = "compound" /\ Node(n).initial = "" THEN <<n>>
  ELSE LET paths == toStatePaths(initialStateValue(n))
       IN flatten([i \in 1..Len(paths) |-> getFromRelativePath(n, paths[i])])

resolveHistory(n, historyValue) ==
  IF Node(n).type # "history" THEN <<n>>
  ELSE IF historyValue = <<>> /\ isUndef(historyTarget(n))
  THEN getInitialStateNodes(parentOf(n))
  ELSE With(IF historyValue = <<>> THEN historyTarget(n)
            ELSE hvCurrent(historyValue, parentOf(n)),
            LAMBDA subHistoryValue :
         IF historyValue # <<>> /\ isString(subHistoryValue)
         THEN <<getStateNode(parentOf(n), strOf(subHistoryValue))>>
         ELSE With(toStatePaths(subHistoryValue), LAMBDA paths :
                flatten([i \in 1..Len(paths) |->
                           IF historyValue = <<>> \/ Node(n).history = "deep"
                           THEN getFromRelativePath(parentOf(n), paths[i])
                           ELSE <<getStateNode(parentOf(n), paths[i][1])>>])))

getRelativeStateNodes(n, historyValue) ==
  IF Node(n).type = "history" THEN resolveHistory(n, historyValue)
  ELSE getInitialStateNodes(n)

\* whether stateNode lies outside escapeeNode's subtree
escapes(stateNode, escapeeNode) ==
  stateNode # escapeeNode /\ ~isAncestor(escapeeNode, stateNode)

RECURSIVE chainTo(_, _)
\* childStateNode, its parent, ... up to but excluding stateNode
chainTo(stateNode, marker) ==
  IF marker = "" \/ marker = stateNode THEN <<>>
  ELSE <<marker>> \o chainTo(stateNode, parentOf(marker))

nodesFromChild(stateNode, childStateNode) ==
  IF escapes(childStateNode, stateNode) THEN <<>>
  ELSE Append(chainTo(stateNode, childStateNode), stateNode)

----------------------------------------------------------------------------
(* Transition selection (StateNode.next, _transition and its three cases) *)

\* utils.ts matchesState, for the value of a node path
matchesState(path, value) ==
  \E i \in 1..Len(toStatePaths(value)) :
     /\ Len(path) <= Len(toStatePaths(value)[i])
     /\ SubSeq(toStatePaths(value)[i], 1, Len(path)) = path

\* a StateTransition, with the error thrown instead and the nodes whose
\* transitions were read on the way
Selection(transitionDefs, entrySet, exitSet, configuration, actions, touched) ==
  [err |-> "", def |-> TRUE, transitions |-> transitionDefs, entrySet |-> entrySet,
   exitSet |-> exitSet, configuration |-> configuration, actions |-> actions,
   touched |-> touched]
NoSelection(touched) ==
  [Selection(<<>>, <<>>, <<>>, <<>>, <<>>, touched) EXCEPT !.def = FALSE]
Thrown(err, touched) ==
  [NoSelection(touched) EXCEPT !.err = err]

isInState(candidate, state) ==
  candidate.in = "" \/ matchesState(pathOf(candidate.in), state.value)

\* a variant: the index of the last candidate of a set of indices
Last(S) == CHOOSE i \in S : \A j \in S : i >= j
\* the index of the first candidate of a set of indices
First(S) == CHOOSE i \in S : \A j \in S : i <= j

\* a variant: the source re-entered by internal transitions as well
reentryAlways(n, isInternal, allNextStateNodes) ==
  flatten([i \in 1..Len(allNextStateNodes) |->
             nodesFromChild(n, allNextStateNodes[i])])
\* const reentryNodes = isInternal ? [] : flatten(allNextStateNodes.map(...))
reentryNodes(n, isInternal, allNextStateNodes) ==
  IF isInternal THEN <<>>
  ELSE flatten([i \in 1..Len(allNextStateNodes) |->
                  nodesFromChild(n, allNextStateNodes[i])])

\* a variant: a transition without target leaves its node and enters it again
selfTransition(n, state, selectedTransition) ==
  Selection(<<selectedTransition>>, <<n>>, <<n>>,
            IF isUndef(state.value) THEN <<>> ELSE <<n>>,
            selectedTransition.actions, {n})
\* if (!nextStateNodes.length) return {entrySet: [], exitSet: [], ...}
targetless(n, state, selectedTransition) ==
  Selection(<<selectedTransition>>, <<>>, <<>>,
            IF isUndef(state.value) THEN <<>> ELSE <<n>>,
            selectedTransition.actions, {n})

next(n, state, eventName) ==
  With(getCandidates(n, eventName), LAMBDA candidates :
    With([failing |-> {i \in 1..Len(candidates) :
                         guardError(n, candidates[i].cond) # ""},
          passing |-> {i \in 1..Len(candidates) :
                         /\ guardError(n, candidates[i].cond) = ""
                         /\ candidates[i].cond = NoCond
                            \/ evaluateGuard(n, candidates[i].cond, state.context)
                         /\ isInState(candidates[i], state)}],
         LAMBDA g :
      IF g.failing # {} /\ (g.passing = {} \/ First(g.failing) < First(g.passing))
      THEN Thrown(guardError(n, candidates[First(g.failing)].cond), {n})
      ELSE IF g.passing = {} THEN NoSelection({n})
      ELSE With(candidates[First(g.passing)], LAMBDA selectedTransition :
        IF ~selectedTransition.hasTarget \/ selectedTransition.target = <<>>
        THEN targetless(n, state, selectedTransition)
        ELSE With(flatten([i \in 1..Len(selectedTransition.target) |->
                             getRelativeStateNodes(selectedTransition.target[i],
                                                   state.historyValue)]),
                  LAMBDA allNextStateNodes :
          Selection(<<selectedTransition>>,
                    reentryNodes(n, selectedTransition.internal, allNextStateNodes),
                    IF selectedTransition.internal THEN <<>> ELSE <<n>>,
                    allNextStateNodes, selectedTransition.actions, {n})))))

\* a variant: the node's own transitions asked before those of its descendants
ownFirst(n, nx, state, eventName) ==
  IF nx.err # "" THEN nx
  ELSE With(next(n, state, eventName), LAMBDA own :
         IF own.err = "" /\ own.def /\ own.transitions # <<>>
         THEN [own EXCEPT !.touched = @ \cup nx.touched]
         ELSE IF ~nx.def \/ nx.transitions = <<>>
         THEN [own EXCEPT !.touched = @ \cup nx.touched]
         ELSE nx)
\* `next || this.next(...)`: the node's own transitions when the descendants
\* selected none
orOwn(n, nx, state, eventName) ==
  IF nx.err # "" THEN nx
  ELSE IF ~nx.def \/ nx.transitions = <<>>
  THEN [next(n, state, eventName) EXCEPT !.touched = @ \cup nx.touched]
  ELSE nx

transitionLeafNode(n, stateValue, state, eventName) ==
  With(next(getStateNode(n, strOf(stateValue)), state, eventName), LAMBDA nx :
    orOwn(n, nx, state, eventName))

RECURSIVE _transition(_, _, _, _)
RECURSIVE transitionCompoundNode(_, _, _, _)
RECURSIVE transitionParallelNode(_, _, _, _)

transitionCompoundNode(n, stateValue, state, eventName) ==
  With(_transition(getStateNode(n, keys(stateValue)[1]),
                   get(stateValue, keys(stateValue)[1]), state, eventName),
       LAMBDA nx : orOwn(n, nx, state, eventName))

\* a variant: only the first region is asked
transitionFirstRegion(n, stateValue, state, eventName) ==
  With(_transition(getStateNode(n, keys(stateValue)[1]),
                   get(stateValue, keys(stateValue)[1]), state, eventName),
       LAMBDA nx : orOwn(n, nx, state, eventName))

transitionParallelNode(n, stateValue, state, eventName) ==
  With(SelectSeq(keys(stateValue), LAMBDA k : ~isUndef(get(stateValue, k))),
       LAMBDA ks :
    With([i \in 1..Len(ks) |->
            _transition(getStateNode(n, ks[i]), get(stateValue, ks[i]),
                        state, eventName)],
         LAMBDA all :
      LET failing == {i \in 1..Len(ks) : all[i].err # ""}
          touched == UNION {all[i].touched : i \in 1..Len(ks)}
      IN IF failing # {}
         THEN Thrown(all[First(failing)].err,
                     UNION {all[i].touched : i \in 1..First(failing)})
         ELSE With(SelectSeq(all, LAMBDA st : st.def), LAMBDA stateTransitions :
           IF ~\E i \in 1..Len(stateTransitions) :
                  stateTransitions[i].transitions # <<>>
           THEN [next(n, state, eventName) EXCEPT !.touched = @ \cup touched]
           ELSE Selection(
                  flatten([i \in 1..Len(stateTransitions) |->
                             stateTransitions[i].transitions]),
                  flatten([i \in 1..Len(stateTransitions) |->
                             stateTransitions[i].entrySet]),
                  flatten([i \in 1..Len(stateTransitions) |->
                             stateTransitions[i].exitSet]),
                  flatten([i \in 1..Len(stateTransitions) |->
                             stateTransitions[i].configuration]),
                  flatten([i \in 1..Len(stateTransitions) |->
                             stateTransitions[i].actions]),
                  touched))))

_transition(n, stateValue, state, eventName) ==
  IF isString(stateValue) THEN transitionLeafNode(n, stateValue, state, eventName)
  ELSE IF Len(keys(stateValue)) = 1
  THEN transitionCompoundNode(n, stateValue, state, eventName)
  ELSE transitionParallelNode(n, stateValue, state, eventName)

----------------------------------------------------------------------------
(* Configurations (stateUtils.ts): insertion-ordered sets of state nodes *)

\* the ancestors of s that are not in the configuration, nearest first, up to
\* the first one that is
RECURSIVE missingAncestors(_, _)
missingAncestors(configuration, s) ==
  LET m == parentOf(s)
  IN IF m = "" \/ has(configuration, m) THEN <<>>
     ELSE <<m>> \o missingAncestors(Append(configuration, m), m)

RECURSIVE addAncestors(_, _)
addAncestors(configuration, i) ==
  IF i > Len(configuration) THEN configuration
  ELSE addAncestors(configuration \o missingAncestors(configuration, configuration[i]),
                    i + 1)

\* getAdjList: the members of the configuration whose parent is s
adjacent(configuration, s) == SelectSeq(configuration, LAMBDA c : parentOf(c) = s)
\* adjList.get(s) is defined for the members and for their parents
adjDefined(configuration, s) ==
  has(configuration, s) \/ adjacent(configuration, s) # <<>>

previousOrInitial(prev, s) ==
  IF adjDefined(prev, s) THEN adjacent(prev, s) ELSE getInitialStateNodes(s)

RECURSIVE addRegions(_, _, _)
addRegions(configuration, prev, regions) ==
  IF regions = <<>> THEN configuration
  ELSE LET child == Head(regions)
       IN addRegions(
            IF Node(child).type = "history" \/ has(configuration, child)
            THEN configuration
            ELSE addAll(Append(configuration, child), previousOrInitial(prev, child)),
            prev, Tail(regions))

RECURSIVE addDescendants(_, _, _, _)
addDescendants(configuration, adj, prev, i) ==
  IF i > Len(configuration) THEN configuration
  ELSE LET s == configuration[i]
       IN addDescendants(
            IF Node(s).type = "compound" /\ adjacent(adj, s) = <<>>
            THEN addAll(configuration, previousOrInitial(prev, s))
            ELSE IF Node(s).type = "parallel"
            THEN addRegions(configuration, prev, getChildren(s))
            ELSE configuration,
            adj, prev, i + 1)

getConfiguration(prevStateNodes, stateNodes) ==
  With(addAncestors(uniq(stateNodes), 1), LAMBDA withAncestors :
    addAncestors(addDescendants(withAncestors, withAncestors,
                                uniq(prevStateNodes), 1), 1))

RECURSIVE getValueFromAdj(_, _)
getValueFromAdj(baseNode, configuration) ==
  With(adjacent(configuration, baseNode), LAMBDA childStateNodes :
     IF ~adjDefined(configuration, baseNode) THEN EmptyObj
     ELSE IF Node(baseNode).type = "compound" /\ childStateNodes = <<>> THEN EmptyObj
     ELSE IF Node(baseNode).type = "compound" /\ isLeafNode(childStateNodes[1])
     THEN StrV(Node(childStateNodes[1]).key)
     ELSE MkObj(uniq([i \in 1..Len(childStateNodes) |-> Node(childStateNodes[i]).key]),
                LAMBDA k : getValueFromAdj(getStateNode(baseNode, k), configuration)))

getValue(rootNode, configuration) ==
  getValueFromAdj(rootNode, getConfiguration(<<rootNode>>, configuration))

RECURSIVE isInFinalState(_, _)
isInFinalState(configuration, n) ==
  CASE Node(n).type = "compound" ->
         \E i \in 1..Len(getChildren(n)) :
            /\ Node(getChildren(n)[i]).type = "final"
            /\ has(configuration, getChildren(n)[i])
    [] Node(n).type = "parallel" ->
         \A i \in 1..Len(getChildren(n)) : isInFinalState(configuration, getChildren(n)[i])
    [] OTHER -> FALSE

----------------------------------------------------------------------------
(* The action list of a microstep (nodeUtils.ts getActions) *)

\* Array.prototype.sort by a.order - b.order, and by b.order - a.order
sortAscending(nodes) ==
  flatten([k \in 1..Cardinality(DOMAIN idMap) |->
             SelectSeq(nodes, LAMBDA x : order(x) = k - 1)])
\* a variant: the exit set sorted like the entry set
sortExitsAscending(nodes) == sortAscending(nodes)
sortDescending(nodes) ==
  flatten([k \in 1..Cardinality(DOMAIN idMap) |->
             SelectSeq(nodes, LAMBDA x : order(x) = Cardinality(DOMAIN idMap) - k)])

\* the loop that pushes the nodes left, and the nodes below an exited node
RECURSIVE pushExits(_, _, _)
pushExits(exitSet, prevConfig, resolvedConfig) ==
  IF prevConfig = <<>> THEN exitSet
  ELSE pushExits(IF ~has(resolvedConfig, Head(prevConfig))
                    \/ has(exitSet, parentOf(Head(prevConfig)))
                 THEN Append(exitSet, Head(prevConfig)) ELSE exitSet,
                 Tail(prevConfig), resolvedConfig)

\* a variant: the done event of the grandparent raised for every final node
doneOfAll(sn, configuration) ==
  IF Node(sn).type # "final" THEN <<>>
  ELSE With(parentOf(parentOf(sn)), LAMBDA grandparent :
         <<done(sn), done(parentOf(sn))>>
         \o (IF grandparent # "" /\ Node(grandparent).type = "parallel"
             THEN <<done(grandparent)>> ELSE <<>>))
\* the done events of one member of the entry set
doneEventsOf(sn, configuration) ==
  IF Node(sn).type # "final" THEN <<>>
  ELSE With(parentOf(parentOf(sn)), LAMBDA grandparent :
         <<done(sn), done(parentOf(sn))>>
         \o (IF grandparent # "" /\ Node(grandparent).type = "parallel"
                /\ \A i \in 1..Len(getChildren(grandparent)) :
                     isInFinalState(configuration, getChildren(grandparent)[i])
             THEN <<done(grandparent)>> ELSE <<>>))

\* entryActions and exitActions: per node, in the order of the sets; the
\* raises of the done events close the entry actions
entryActions(entryStates, doneEvents, c) ==
  flatten([i \in 1..Len(entryStates) |->
             [j \in 1..Len(activitiesOf(entryStates[i])) |->
                start(activitiesOf(entryStates[i])[j])]
             \o entryOf(entryStates[i], c)])
  \o [i \in 1..Len(doneEvents) |-> raise(doneEvents[i])]
exitActions(exitStates, c) ==
  flatten([i \in 1..Len(exitStates) |->
             exitOf(exitStates[i], c)
             \o [j \in 1..Len(activitiesOf(exitStates[i])) |->
                   stop(activitiesOf(exitStates[i])[j])]])

\* a variant: the concatenation the other way round
entryFirstActions(exitActs, transitionActs, entryActs) ==
  entryActs \o transitionActs \o exitActs
\* exitActions.concat(transition.actions).concat(entryActions)
concatActions(exitActs, transitionActs, entryActs) ==
  exitActs \o transitionActs \o entryActs

getActions(stateNode, transition, hasPrev, prevValue, c) ==
  With(getConfiguration(<<>>, IF hasPrev THEN getStateNodes(stateNode, prevValue)
                              ELSE <<stateNode>>),
       LAMBDA prevConfig :
  With(IF transition.configuration # <<>>
       THEN getConfiguration(prevConfig, transition.configuration)
       ELSE prevConfig,
       LAMBDA resolvedConfig :
  With([entrySet |->
          transition.entrySet
          \o SelectSeq(resolvedConfig, LAMBDA sn : ~has(prevConfig, sn))
          \o (IF hasPrev THEN <<>> ELSE <<stateNode>>),
        exitSet |->
          IF hasPrev THEN pushExits(transition.exitSet, prevConfig, resolvedConfig)
          ELSE <<>>],
       LAMBDA sets :
  With([doneEvents |->
          flatten([i \in 1..Len(sets.entrySet) |->
                     doneEventsOf(sets.entrySet[i], transition.configuration)]),
        entrySet |-> sortAscending(sets.entrySet),
        exitSet |-> sortDescending(sets.exitSet)],
       LAMBDA sorted :
  With([entryStates |-> uniq(sorted.entrySet), exitStates |-> uniq(sorted.exitSet)],
       LAMBDA u :
    [actions |->
       concatActions(exitActions(u.exitStates, c), transition.actions,
                     entryActions(u.entryStates, sorted.doneEvents, c)),
     entrySet |-> sorted.entrySet, exitSet |-> sorted.exitSet,
     entryStates |-> u.entryStates, exitStates |-> u.exitStates,
     doneEvents |-> sorted.doneEvents])))))

----------------------------------------------------------------------------
(* State objects.  While a call runs, `children` is a reference into the    *)
(* heap of arrays, because resolveTransition shares and mutates the array.  *)

initEvent == "xstate.init"

\* new State(config)
State(value, ctx, historyValue, actions, configuration, transitionDefs, children, isDone) ==
  [value |-> value, context |-> ctx, historyValue |-> historyValue,
   actions |-> actions, configuration |-> configuration,
   transitions |-> transitionDefs, children |-> children, done |-> isDone,
   changed |-> "undefined"]

\* the outcome of an engine call: the error thrown or the state returned, the
\* caches and arrays as the call leaves them, and the microsteps it made
Outcome(err, state, c, heap, log, dropped) ==
  [err |-> err, state |-> state, cache |-> c, heap |-> heap, log |-> log,
   dropped |-> dropped]

bool(b) == IF b THEN "true" ELSE "false"


\* a variant: only raise actions are taken out of the action list
isRaiseOnly(action) == action.type = ActionTypes.Raise
isRaised(action) ==
  action.type = ActionTypes.Raise \/ (action.type = ActionTypes.Send /\ action.to = Internal)

\* the loop over the resolved actions that keeps state.children
RECURSIVE spawnChildren(_, _, _)
spawnChildren(actions, children, heap) ==
  IF actions = <<>> THEN [children |-> children, heap |-> heap]
  ELSE LET action == Head(actions)
       IN CASE action.type = ActionTypes.Start ->
                 spawnChildren(Tail(actions), children,
                               [heap EXCEPT ![children] = Append(@, action.arg)])
            [] action.type = ActionTypes.Stop ->
                 spawnChildren(Tail(actions), Len(heap) + 1,
                               Append(heap, SelectSeq(heap[children],
                                                      LAMBDA id : id # action.arg)))
            [] OTHER -> spawnChildren(Tail(actions), children, heap)

\* StateNode.events and ownEvents
ownEvents(n) ==
  {transitions(n)[i].eventType : i \in
     {j \in 1..Len(transitions(n)) :
        ~(~transitions(n)[j].hasTarget /\ transitions(n)[j].actions = <<>>
          /\ transitions(n)[j].internal)}}
events(m) == UNION {ownEvents(n) : n \in NodesOf(m)}
isBuiltInEvent(m, eventName) ==
  eventName \in {initEvent, NULL_EVENT} \cup {done(n) : n \in NodesOf(m)}

----------------------------------------------------------------------------
(* The microstep engine (StateNode.transition, resolveTransition,           *)
(* resolveRaisedTransition)                                                 *)

\* a State instance or a state value, as the first argument of transition
Instance(state) == [instance |-> TRUE, state |-> state]
Plain(stateValue) == [instance |-> FALSE, value |-> stateValue]

\* State.from(stateValue, context)
StateFrom(stateValue, ctx, children) ==
  State(stateValue, ctx, <<>>, <<>>, <<>>, <<>>, children, FALSE)

resolveState(m, state) ==
  [state EXCEPT !.value = resolve(m, state.value),
                !.configuration =
                   getConfiguration(<<>>, getStateNodes(m, state.value))]

\* one entry of the log of microsteps
Microstep(eventName, hasCurrent, prevValue, prevContext, stateTransition, acts, nextState, raisedEvents, c) ==
  [event |-> eventName, initial |-> ~hasCurrent, prevValue |-> prevValue,
   prevContext |-> prevContext, selected |-> stateTransition.transitions,
   exitStates |-> acts.exitStates, entryStates |-> acts.entryStates,
   doneEvents |-> acts.doneEvents, actions |-> acts.actions,
   raised |-> raisedEvents, resolved |-> nextState.actions,
   value |-> nextState.value,
   context |-> nextState.context, configuration |-> nextState.configuration,
   done |-> nextState.done, cache |-> c]

RECURSIVE transition(_, _, _, _, _, _)
RECURSIVE resolveTransition(_, _, _, _, _, _, _, _, _)
RECURSIVE resolveRaisedTransition(_, _, _, _, _)
RECURSIVE raisedLoop(_, _, _, _, _)


\* acc is the outcome so far, acc.state the state the raised event is sent to
resolveRaisedTransition(m, acc, eventName, originalEvent, d) ==
  IF acc.err # "" THEN acc
  ELSE With(transition(m, Instance(acc.state), eventName,
                       acc.cache, acc.heap, d - 1),
            LAMBDA r :
         IF r.err # ""
         THEN [r EXCEPT !.log = acc.log \o @, !.dropped = acc.dropped \o @]
         ELSE Outcome("", [r.state EXCEPT !.actions = acc.state.actions \o @],
                      r.cache, r.heap, acc.log \o r.log, acc.dropped \o r.dropped))

\* a variant: the loop over the raised events left out
raisedIgnored(m, acc, raisedEvents, originalEvent, d) == acc
\* while (raisedEvents.length) ...
raisedLoop(m, acc, raisedEvents, originalEvent, d) ==
  IF raisedEvents = <<>> \/ acc.err # "" THEN acc
  ELSE raisedLoop(m,
         resolveRaisedTransition(m, acc, Head(raisedEvents).arg, originalEvent, d),
         Tail(raisedEvents), originalEvent, d)

\* a variant: changed set whatever the event
changedAlways(eventName, assignActions) == "true"
\* nextState.changed = _event.name === actionTypes.update || !!assignActions.length
changedByEvent(eventName, assignActions) ==
  bool(eventName = ActionTypes.Update \/ assignActions # <<>>)

\* a variant: the context left as it was before the assigns
currentContextOnly(currentContext, assignActions) == currentContext
\* const updatedContext = assignActions.length ? updateContext(...) : currentContext
updatedContextOf(currentContext, assignActions) ==
  IF assignActions # <<>> THEN updateContext(currentContext, assignActions)
  ELSE currentContext

resolveTransition(m, stateTransition, hasCurrent, currentState, eventName, ctx, c, heap0, d) ==
  With([resolvedStateValue |->
          IF ~hasCurrent \/ stateTransition.transitions # <<>>
          THEN getValue(m, stateTransition.configuration) ELSE Undef,
        historyValue |->
          IF ~hasCurrent THEN <<>>
          ELSE IF currentState.historyValue # <<>> THEN currentState.historyValue
          ELSE getHistoryValue(m, currentState.value),
        currentContext |-> IF hasCurrent THEN currentState.context ELSE ctx,
        acts |-> getActions(m, stateTransition, hasCurrent,
                            IF hasCurrent THEN currentState.value ELSE Undef, c)],
       LAMBDA v :
  With([assignActions |-> SelectSeq(v.acts.actions, LAMBDA a : a.type = ActionTypes.Assign),
        otherActions |-> SelectSeq(v.acts.actions, LAMBDA a : a.type # ActionTypes.Assign)],
       LAMBDA split :
  With(updatedContextOf(v.currentContext, split.assignActions),
       LAMBDA updatedContext :
  \* resolveRaise, resolveSend: the event of a raise or send action is already
  \* an event name, and its delay and target are not expressions; resolveLog:
  \* the expression of a log action, ctx => ctx[arg], gives its value
  With([i \in 1..Len(split.otherActions) |->
          IF split.otherActions[i].type = ActionTypes.Log
          THEN [split.otherActions[i] EXCEPT
                  !.value = <<updatedContext[split.otherActions[i].arg]>>]
          ELSE split.otherActions[i]],
       LAMBDA resolvedActions :
  With([raisedEvents |-> SelectSeq(resolvedActions, isRaised),
        nonRaisedActions |-> SelectSeq(resolvedActions, LAMBDA a : ~isRaised(a)),
        spawned |->
          IF hasCurrent
          THEN spawnChildren(resolvedActions, currentState.children, heap0)
          ELSE spawnChildren(resolvedActions, Len(heap0) + 1, Append(heap0, <<>>)),
        \* getInitialState passes one array as configuration and entrySet
        resolvedConfiguration |->
          IF ~isUndef(v.resolvedStateValue)
          THEN (IF hasCurrent THEN stateTransition.configuration
                ELSE v.acts.entrySet)
          ELSE IF hasCurrent THEN currentState.configuration ELSE <<>>],
       LAMBDA w :
  With([State(IF isUndef(v.resolvedStateValue) THEN currentState.value
              ELSE v.resolvedStateValue,
              updatedContext,
              IF ~isUndef(v.resolvedStateValue)
              THEN (IF v.historyValue # <<>>
                    THEN updateHistoryValue(v.historyValue, m, v.resolvedStateValue)
                    ELSE <<>>)
              ELSE IF hasCurrent THEN currentState.historyValue ELSE <<>>,
              IF ~isUndef(v.resolvedStateValue) THEN w.nonRaisedActions ELSE <<>>,
              w.resolvedConfiguration, stateTransition.transitions,
              w.spawned.children, isInFinalState(w.resolvedConfiguration, m))
          EXCEPT !.changed = changedByEvent(eventName, split.assignActions)],
       LAMBDA nextState :
  With(Outcome("", nextState, c, w.spawned.heap,
               <<Microstep(eventName, hasCurrent,
                           IF hasCurrent THEN currentState.value ELSE Undef,
                           v.currentContext, stateTransition, v.acts, nextState,
                           [i \in 1..Len(w.raisedEvents) |-> w.raisedEvents[i].arg],
                           c)>>,
               IF nextState.done
               THEN [i \in 1..Len(w.raisedEvents) |-> w.raisedEvents[i].arg]
               ELSE <<>>),
       LAMBDA first :
    IF isUndef(v.resolvedStateValue) THEN first
    ELSE With(IF nextState.done THEN first
              ELSE raisedLoop(m,
                IF transient(m) \/ \E i \in 1..Len(w.resolvedConfiguration) :
                                      transient(w.resolvedConfiguration[i])
                THEN resolveRaisedTransition(m, first, NULL_EVENT, eventName, d)
                ELSE first,
                w.raisedEvents, eventName, d),
              LAMBDA afterRaised :
      IF afterRaised.err # "" THEN afterRaised
      ELSE [afterRaised EXCEPT
              !.state = [@ EXCEPT
                 !.changed =
                    IF @ = "true" THEN "true"
                    ELSE IF hasCurrent
                    THEN bool(\/ afterRaised.state.actions # <<>>
                              \/ split.assignActions # <<>>
                              \/ isString(currentState.value)
                                   # isString(afterRaised.state.value)
                              \/ ~stateValuesEqual(afterRaised.state.value,
                                                   currentState.value))
                    ELSE "undefined",
                 !.children = w.spawned.children,
                 !.historyValue = nextState.historyValue]]))))))))

\* a variant: the targets as they are, without getConfiguration
targetsOnly(prevConfig, stateTransition) ==
  IF stateTransition.configuration # <<>> THEN stateTransition.configuration
  ELSE prevConfig
\* const resolvedConfig = stateTransition.configuration.length ? ... : prevConfig
resolvedConfig(prevConfig, stateTransition) ==
  IF stateTransition.configuration # <<>>
  THEN getConfiguration(prevConfig, stateTransition.configuration)
  ELSE prevConfig

\* a variant: a strict machine that rejects nothing
neverRejected(m, eventName) == FALSE
\* StateNode.transition: the strict machine's check of the event's type
notAccepted(m, eventName) ==
  Node(m).strict /\ eventName \notin events(m) /\ ~isBuiltInEvent(m, eventName)

\* the caches after the strict check: reading this.events formats the
\* transitions of every state node
afterStrictCheck(m, c0) == IF Node(m).strict THEN c0 \cup Lowerable(m) ELSE c0

transition(m, state, eventName, c00, heap0, d) ==
  With(IF state.instance THEN heap0 ELSE Append(heap0, <<>>), LAMBDA heap :
  With(IF state.instance THEN state.state
       ELSE resolveState(m, StateFrom(resolve(m, state.value), context, Len(heap))),
       LAMBDA currentState :
    IF d = 0 THEN Outcome("RangeError", currentState, c00, heap, <<>>, <<>>)
    ELSE IF eventName = WILDCARD
    THEN Outcome("WildcardEvent", currentState, c00, heap, <<>>, <<>>)
    ELSE With(afterStrictCheck(m, c00), LAMBDA c0 :
    IF notAccepted(m, eventName)
    THEN Outcome("EventNotAccepted", currentState, c0, heap, <<>>, <<>>)
    ELSE With(_transition(m, currentState.value, currentState, eventName),
              LAMBDA stateTransition :
      IF stateTransition.err # ""
      THEN Outcome(stateTransition.err, currentState,
                   c0 \cup (stateTransition.touched \cap Lowerable(m)), heap,
                   <<>>, <<>>)
      ELSE With(getConfiguration(<<>>, getStateNodes(m, currentState.value)),
                LAMBDA prevConfig :
        resolveTransition(m,
          [stateTransition EXCEPT
             !.configuration = resolvedConfig(prevConfig, stateTransition)],
          TRUE, currentState, eventName, context,
          c0 \cup (stateTransition.touched \cap Lowerable(m)), heap, d))))))

\* nodeUtils.ts getInitialState
getInitialState(m, stateValue, ctx, c, d) ==
  With(getStateNodes(m, stateValue), LAMBDA configuration :
    resolveTransition(m,
      Selection(<<>>, configuration, <<>>, configuration, <<>>, {}),
      FALSE, StateFrom(Undef, ctx, 0), initEvent, ctx, c, <<>>, d))

\* StateNode._init: reads `on` of every node unless the root's transitions are cached
_init(m, c) == IF m \in c THEN c ELSE c \cup Lowerable(m)

initialState(m, ctx, c) ==
  IF isUndef(initialStateValue(m))
  THEN Outcome("NoInitialState", StateFrom(Undef, ctx, 0), _init(m, c), <<>>, <<>>, <<>>)
  ELSE getInitialState(m, initialStateValue(m), ctx, _init(m, c), MaxDepth)

----------------------------------------------------------------------------
(* The client: a machine is constructed, then initialState, transition and  *)
(* resolveState are called on it in any order                               *)

\* state.history: the previous State object, of which the engine reads the
\* value only
Previous(state) == [value |-> state.value]

\* the State object as the client sees it after a call
Observed(state, heap, history, eventName) ==
  [value |-> state.value, context |-> state.context,
   historyValue |-> state.historyValue, actions |-> state.actions,
   configuration |-> state.configuration, transitions |-> state.transitions,
   children |-> heap[state.children], done |-> state.done,
   changed |-> state.changed, history |-> history, event |-> eventName]

\* the State object S as an argument of a call, its children array at heap[1]
Argument(S) ==
  [value |-> S.value, context |-> S.context, historyValue |-> S.historyValue,
   actions |-> S.actions, configuration |-> S.configuration,
   transitions |-> S.transitions, children |-> 1, done |-> S.done,
   changed |-> S.changed]

\* utils.ts pathToStateValue
RECURSIVE pathToStateValue(_)
pathToStateValue(path) ==
  IF Len(path) = 1 THEN StrV(path[1])
  ELSE Prefix(Head(path), pathToStateValue(Tail(path)))

\* State.toStrings(stateValue, delimiter)
RECURSIVE toStrings(_, _)
toStrings(stateValue, delimiter) ==
  IF isString(stateValue) THEN <<strOf(stateValue)>>
  ELSE With(keys(stateValue), LAMBDA valueKeys :
         valueKeys
         \o flatten([i \in 1..Len(valueKeys) |->
               With(toStrings(get(stateValue, valueKeys[i]), "."), LAMBDA sub :
                 [j \in 1..Len(sub) |-> valueKeys[i] \o delimiter \o sub[j]])]))

\* utils.ts toStateValue of an array: the array is a path, as the one passed
\* in StateNode.next; a state value is returned as it is
toStateValue(stateValue, delimiter) ==
  IF stateValue.array THEN pathToStateValue(stateValue.value) ELSE stateValue.value

\* getStateNode throws in resolve(stateValue): a key that is no child
RECURSIVE childMissing(_, _)
childMissing(n, stateValue) ==
  IF isUndef(stateValue) THEN FALSE
  ELSE CASE Node(n).type = "parallel" ->
              \E k \in Range(keys(initialStateValue(n))) :
                 With(get(stateValue, k), LAMBDA sub :
                   childMissing(getStateNode(n, k),
                                IF isUndef(sub) THEN get(initialStateValue(n), k)
                                ELSE sub))
         [] Node(n).type = "compound" ->
              IF isString(stateValue)
              THEN strOf(stateValue) \notin DOMAIN Node(n).child
              ELSE \E k \in Range(keys(stateValue)) :
                      \/ k \notin DOMAIN Node(n).child
                      \/ childMissing(getStateNode(n, k), get(stateValue, k))
         [] OTHER -> FALSE

\* the state values a client passes: the path of every state node that can be
\* active
Values(m) ==
  {pathToStateValue(pathOf(n)) : n \in {x \in NodesOf(m) \ {m} : Node(x).type # "history"}}

\* the events a client sends
Events(m) ==
  (events(m) \ {NULL_EVENT}) \cup {"FAKE", ActionTypes.Update, WILDCARD}
    \cup (IF Node(m).strict THEN {done(m)} ELSE {})

ContextsOf(m) ==
  CASE m = "door" -> {ctx \in Contexts : ctx.count = 0}
    [] m = "lp" -> {ctx \in Contexts : ctx.count <= 1 /\ ~ctx.isAdmin}
    [] OTHER -> {ctx \in Contexts : ctx.count = 0 /\ ~ctx.isAdmin}

\* createDefaultOptions(): five empty registries
createDefaultOptions ==
  [actions |-> {}, guards |-> {}, services |-> {}, activities |-> {}, delays |-> {}]

\* a variant: the entries of the machine win over those given
optionsFirst(opts) ==
  [r \in DOMAIN options |->
     {q \in opts[r] : \A o \in options[r] : o[1] # q[1]} \cup options[r]]
\* withConfig: { ...this.options[r], ...options[r] } for each registry r
withConfig(opts) ==
  [r \in DOMAIN options |->
     {o \in options[r] : \A q \in opts[r] : q[1] # o[1]} \cup opts[r]]

Call(op, eventName, input, inputAfter, outcome) ==
  [op |-> op, event |-> eventName, input |-> input, inputAfter |-> inputAfter,
   err |-> outcome.err, log |-> outcome.log, dropped |-> outcome.dropped]

\* new Interpreter(machine, { clock: new SimulatedClock() }). The fields op to
\* sent are the history of the calls: the method last called from outside and
\* the error it threw, whether a send is between its transition and the end
\* of its update, whether a send began while another was, the events
\* processed and the states notified by the last call, in order, and every
\* timer registered
Interpreter ==
  [initialized |-> FALSE, state |-> <<>>, eventQueue |-> <<>>,
   delayedEventsMap |-> <<>>,
   clock |-> [now |-> 0, id |-> 0, timeouts |-> <<>>],
   op |-> "new", err |-> "", busy |-> FALSE, overlapped |-> FALSE,
   processed |-> <<>>, notified |-> <<>>, sent |-> <<>>]

\* new StateNode(config, options) for one of the configs: the constructor
\* builds the tree and the idMap, and throws nothing
Construct(configs) ==
  /\ \E cfg \in Range(configs) : machine = cfg[1].id /\ idMap = Machine(cfg)
  /\ context \in ContextsOf(machine)
  /\ options = IF machine = "door"
               THEN [createDefaultOptions EXCEPT
                       !.guards = {<<"isOther", "isAdmin">>},
                       !.actions = {<<"known", "log">>}]
               ELSE createDefaultOptions
  /\ cache = {}
  /\ cur = <<>>
  /\ last = [op |-> "new", event |-> "", input |-> <<>>, inputAfter |-> <<>>,
             err |-> "", log |-> <<>>, dropped |-> <<>>]
  /\ service = Interpreter

Init == Construct(Catalogue)

\* S = machine.initialState
GetInitialState ==
  \E r \in {initialState(machine, context, cache)} :
     /\ cache' = r.cache
     /\ cur' = IF r.err = "" THEN <<Observed(r.state, r.heap, <<>>, initEvent)>>
               ELSE cur
     /\ last' = Call("initialState", initEvent, <<>>, <<>>, r)
     /\ UNCHANGED <<machine, idMap, context, options, service>>

\* a variant: the history of S is left in place
historyKept(S, r) == [S EXCEPT !.children = r.heap[1]]
\* S after a call on it: resolveTransition deletes S.history and pushes to the
\* array S.children
Mutated(S, r) ==
  [S EXCEPT !.children = r.heap[1],
            !.history = IF r.log # <<>> THEN <<>> ELSE @]

\* S = machine.transition(S, E)
Send(E) ==
  /\ cur # <<>>
  /\ \E r \in {transition(machine, Instance(Argument(cur[1])), E, cache,
                          <<cur[1].children>>, MaxDepth)} :
       \E mutated \in {Mutated(cur[1], r)} :
          /\ cache' = r.cache
          /\ cur' = IF r.err = ""
                    THEN <<Observed(r.state, r.heap, <<Previous(mutated)>>, E)>>
                    ELSE <<mutated>>
          /\ last' = Call("transition", E, cur, <<mutated>>, r)
  /\ UNCHANGED <<machine, idMap, context, options, service>>

\* S = machine.transition(stateValue, E)
TransitionFromValue(stateValue, E) ==
  /\ last.op \in {"new", "initialState"}
  /\ \E r \in {transition(machine, Plain(stateValue), E, cache, <<>>, MaxDepth)} :
        /\ cache' = r.cache
        /\ cur' = IF r.err = ""
                  THEN <<Observed(r.state, r.heap,
                            <<Previous(resolveState(machine,
                                StateFrom(resolve(machine, stateValue), context, 1)))>>,
                            E)>>
                  ELSE cur
        /\ last' = Call("transitionValue", E, <<>>, <<>>, r)
  /\ UNCHANGED <<machine, idMap, context, options, service>>

\* S = machine.resolveState(State.from(stateValue, machine.context))
ResolveState(stateValue) ==
  /\ last.op \in {"new", "initialState"}
  /\ cur' = <<Observed(resolveState(machine, StateFrom(stateValue, context, 1)),
                       <<<<>>>>, <<>>, initEvent)>>
  /\ last' = Call("resolveState", initEvent, <<[value |-> stateValue]>>,
                  <<[value |-> stateValue]>>,
                  Outcome("", <<>>, cache, <<>>, <<>>, <<>>))
  /\ UNCHANGED <<machine, idMap, context, options, cache, service>>

\* machine.resolve(toStateValue(S.toStrings(S.value, delimiter), delimiter)),
\* for a state S just resolved; by default the delimiter is '.'
RoundTrip(delimiter) ==
  /\ last.op = "resolveState"
  /\ \E strings \in {toStrings(cur[1].value, delimiter)} :
     \E stateValue \in {toStateValue([array |-> TRUE, value |-> strings],
                                     delimiter)} :
        last' = [op |-> "roundTrip", event |-> "",
                 input |-> <<[value |-> cur[1].value, delimiter |-> delimiter]>>,
                 inputAfter |-> <<[value |-> cur[1].value, delimiter |-> delimiter]>>,
                 err |-> IF childMissing(machine, stateValue)
                         THEN "ChildDoesNotExist" ELSE "",
                 log |-> <<>>, dropped |-> <<>>,
                 strings |-> strings,
                 resolved |-> IF childMissing(machine, stateValue) THEN Undef
                              ELSE resolve(machine, stateValue)]
  /\ UNCHANGED <<machine, idMap, context, options, cache, cur, service>>

\* machine = machine.withConfig(opts): the client goes on with the clone, a
\* new StateNode of the same config with empty caches; explored for a
\* machine constructed with options, right after its construction
WithConfig(opts) ==
  /\ last.op = "new" /\ options # createDefaultOptions
  /\ options' = withConfig(opts)
  /\ cache' = {}
  /\ cur' = <<>>
  /\ last' = Call("withConfig", "",
                  <<[options |-> options, context |-> context, opts |-> opts]>>,
                  <<[options |-> options, context |-> context, opts |-> opts]>>,
                  Outcome("", <<>>, {}, <<>>, <<>>, <<>>))
  /\ UNCHANGED <<machine, idMap, context, service>>

\* machine = machine.withContext(ctx)
WithContext(ctx) ==
  /\ last.op = "new" /\ options # createDefaultOptions
  /\ context' = ctx
  /\ cache' = {}
  /\ cur' = <<>>
  /\ last' = Call("withContext", "",
                  <<[options |-> options, context |-> context, ctx |-> ctx]>>,
                  <<[options |-> options, context |-> context, ctx |-> ctx]>>,
                  Outcome("", <<>>, {}, <<>>, <<>>, <<>>))
  /\ UNCHANGED <<machine, idMap, options, service>>

\* graph.ts: the adjacency map of a machine and getShortestPaths
\* machine.events as an array: the own events of a node, then those of its
\* child nodes, in the order of the config
RECURSIVE eventsInOrder(_)
eventsInOrder(n) ==
  With(SelectSeq(transitions(n), LAMBDA t :
         ~(~t.hasTarget /\ t.actions = <<>> /\ t.internal)),
       LAMBDA own :
    uniq([i \in 1..Len(own) |-> own[i].eventType]
         \o flatten([i \in 1..Len(getChildren(n)) |->
                       eventsInOrder(getChildren(n)[i])])))

\* node.transition(stateValue, event) for every event of the machine, in
\* order: the row adjacency[stateValue] of getAdjacencyMap
adjacentTo(stateValue, c) ==
  [i \in 1..Len(eventsInOrder(machine)) |->
     With(transition(machine, Plain(stateValue), eventsInOrder(machine)[i], c,
                     <<>>, MaxDepth),
          LAMBDA nextState :
       [err |-> nextState.err,
        state |-> IF nextState.err = "" THEN nextState.state.value ELSE Undef])]

\* getAdjacencyMap: findAdjacencies(stateValue) for the state values of
\* `front` adds their rows and goes on with the state values they lead to
RECURSIVE findAdjacencies(_, _, _)
findAdjacencies(adjacency, front, c) ==
  IF front = {} THEN adjacency
  ELSE With([v \in front |-> adjacentTo(v, c)] @@ adjacency, LAMBDA found :
         findAdjacencies(found,
           UNION {{found[v][i].state : i \in 1..Len(found[v])} : v \in front}
             \ (DOMAIN found \cup {Undef}),
           c))

\* getShortestPaths: util(stateValue). The first loop gives a path to every
\* state value adjacent to stateValue that has none or a longer one; the
\* second loop, over `unvisited`, calls util for the adjacent state values
\* not yet visited
RECURSIVE util(_, _, _, _)
util(adjacency, paths, stateValue, unvisited) ==
  IF unvisited # <<>>
  THEN util(adjacency,
            IF Head(unvisited) \in paths.visited THEN paths
            ELSE util(adjacency, paths, Head(unvisited), <<>>),
            stateValue, Tail(unvisited))
  ELSE IF stateValue \in paths.visited THEN paths
  ELSE With([i \in 1..Len(adjacency[stateValue]) |-> adjacency[stateValue][i].state],
            LAMBDA row :
    With({w \in Range(row) :
            \/ w \notin DOMAIN paths.pathMap
            \/ Len(paths.pathMap[w]) > Len(paths.pathMap[stateValue]) + 1},
         LAMBDA nearer :
      With([w \in nearer |->
              Append(paths.pathMap[stateValue],
                     [state |-> stateValue,
                      event |-> eventsInOrder(machine)[
                         CHOOSE i \in 1..Len(row) :
                            row[i] = w /\ \A j \in 1..(i - 1) : row[j] # w]])]
           @@ paths.pathMap,
           LAMBDA pathMap :
        IF SelectSeq(uniq(row), LAMBDA w : w \notin paths.visited \cup {stateValue})
             = <<>>
        THEN [pathMap |-> pathMap, visited |-> paths.visited \cup {stateValue}]
        ELSE util(adjacency,
                  [pathMap |-> pathMap, visited |-> paths.visited \cup {stateValue}],
                  stateValue,
                  SelectSeq(uniq(row),
                            LAMBDA w : w \notin paths.visited \cup {stateValue})))))

\* paths = getShortestPaths(machine) on a machine just constructed
GetShortestPaths ==
  /\ last.op = "new"
  /\ \E r \in {initialState(machine, context, cache)} :
       /\ cache' = r.cache
       /\ \E adjacency \in
             {IF r.err # "" THEN <<>>
              ELSE findAdjacencies(<<>>, {r.state.value}, r.cache)} :
          \E thrown \in
             {IF r.err # "" THEN {r.err}
              ELSE {adjacency[v][i].err :
                      v \in DOMAIN adjacency,
                      i \in 1..Len(eventsInOrder(machine))} \ {""}} :
            last' = [op |-> "getShortestPaths", event |-> "", input |-> <<>>,
                     inputAfter |-> <<>>,
                     err |-> IF thrown = {} THEN ""
                             ELSE CHOOSE e \in thrown : TRUE,
                     log |-> <<>>, dropped |-> <<>>,
                     initial |-> IF r.err = "" THEN r.state.value ELSE Undef,
                     adjacency |-> adjacency,
                     paths |->
                       IF thrown # {} THEN <<>>
                       ELSE util(adjacency,
                                 [pathMap |-> (r.state.value :> <<>>),
                                  visited |-> {}],
                                 r.state.value, <<>>).pathMap]
  /\ UNCHANGED <<machine, idMap, context, options, cur, service>>

\* S = strict.transition(stateValue, E) on a fresh strict machine for an event
\* of its alphabet, then lenient = new StateNode({ ...config, strict: false })
WithoutStrict(stateValue, E) ==
  /\ last.op = "new"
  /\ Node(machine).strict
  /\ E \in events(machine)
  /\ \E r \in {transition(machine, Plain(stateValue), E, cache, <<>>, MaxDepth)} :
        /\ cur' = IF r.err = ""
                  THEN <<Observed(r.state, r.heap, <<[value |-> stateValue]>>, E)>>
                  ELSE cur
        /\ last' = Call("withoutStrict", E, <<[value |-> stateValue]>>, <<>>, r)
  /\ idMap' = [idMap EXCEPT ![machine].strict = FALSE]
  /\ cache' = {}
  /\ UNCHANGED <<machine, context, options, service>>

Next ==
  \/ \E g \in {{<<"isKnown", "isAdmin">>},
                {<<"isKnown", "countIsMax">>, <<"isOther", "countIsMax">>}} :
        WithConfig([createDefaultOptions EXCEPT !.guards = g])
  \/ \E ctx \in ContextsOf(machine) \ {context} : WithContext(ctx)
  \/ GetInitialState
  \/ \E E \in Events(machine) : Send(E)
  \/ \E v \in Values(machine), E \in Events(machine) : TransitionFromValue(v, E)
  \/ \E v \in Values(machine) \cup {EmptyObj} : ResolveState(v)
  \/ \E delimiter \in {".", "/"} : RoundTrip(delimiter)
  \/ \E v \in Values(machine), E \in Events(machine) : WithoutStrict(v, E)
  \/ GetShortestPaths

Spec == Init /\ [][Next]_vars

\* the same client on a machine of a configuration that is not valid
InvalidInit == Construct(<<NoInitialCfg, NoRootInitialCfg, DupCfg>>)

InvalidNext ==
  \/ GetInitialState
  \/ \E E \in Events(machine) : Send(E)
  \/ \E v \in Values(machine), E \in Events(machine) : TransitionFromValue(v, E)
  \/ \E v \in Values(machine) : ResolveState(v)

InvalidSpec == InvalidInit /\ [][InvalidNext]_vars

----------------------------------------------------------------------------
(* The interpreter (interpreter.ts): a service of a machine, its event      *)
(* queue, its delayed events and the SimulatedClock it is given             *)

\* a machine with an undelayed send on entry of its initial state, a delayed
\* send and its cancel, two undelayed sends in one transition, and an invoked
\* service
ServiceCfg == <<
  Comp("sv", "sv", "", "idle", <<"idle", "busy", "ready", "late">>, <<>>),
  [Leaf("sv.idle", "idle", "sv",
     << OnDo("PING", NoCond, <<send("TIMEOUT", <<1000>>)>>),
        OnDo("STOP", NoCond, <<cancel("TIMEOUT")>>),
        OnTo("TIMEOUT", "late"),
        On("GO", <<Rel(<<"busy">>)>>, NoCond, <<send("A", <<>>), send("B", <<>>)>>),
        OnTo("CALL", "ready") >>)
     EXCEPT !.entry = <<send("WAKE", <<>>)>>],
  Leaf("sv.busy", "busy", "sv",
     << OnDo("A", NoCond, <<send("C", <<>>)>>),
        OnDo("B", NoCond, <<Act("b")>>),
        OnTo("C", "idle") >>),
  [Leaf("sv.ready", "ready", "sv", <<OnTo("PONG", "idle")>>)
     EXCEPT !.invoke = <<"svc">>],
  Leaf("sv.late", "late", "sv", <<OnTo("RESET", "idle")>>) >>

\* the machine of the invoked service: it sends PONG to its parent on entry
ChildCfg == <<
  Comp("ch", "ch", "", "on", <<"on">>, <<>>),
  [Leaf("ch.on", "on", "ch", <<>>)
     EXCEPT !.entry = <<[send("PONG", <<>>) EXCEPT !.to = "_parent"]>>] >>

\* SimulatedClock.setTimeout(() => this.send(sendAction.event), delay), as
\* Interpreter.defer calls it, and this.delayedEventsMap[sendAction.id] = id
defer(I, sendAction) ==
  [I EXCEPT
     !.clock.id = @ + 1,
     !.clock.timeouts =
        Append(@, [id |-> I.clock.id, start |-> I.clock.now,
                   timeout |-> sendAction.delay[1], event |-> sendAction.arg]),
     !.delayedEventsMap =
        Append(SelectSeq(@, LAMBDA e : e.id # sendAction.id),
               [id |-> sendAction.id, timer |-> I.clock.id]),
     !.sent = Append(@, [timer |-> I.clock.id, id |-> sendAction.id,
                         start |-> I.clock.now, timeout |-> sendAction.delay[1],
                         cancelled |-> FALSE, delivered |-> 0, at |-> 0])]

\* Interpreter.cancel: clock.clearTimeout(delayedEventsMap[sendId]) and
\* delete delayedEventsMap[sendId]
Interpreter_cancel(I, sendId) ==
  [I EXCEPT
     !.clock.timeouts =
        SelectSeq(@, LAMBDA t :
          \A i \in 1..Len(I.delayedEventsMap) :
             I.delayedEventsMap[i].id = sendId => I.delayedEventsMap[i].timer # t.id),
     !.delayedEventsMap = SelectSeq(@, LAMBDA e : e.id # sendId),
     !.sent = [k \in 1..Len(@) |->
                 IF @[k].id = sendId /\ @[k].delivered = 0
                 THEN [@[k] EXCEPT !.cancelled = TRUE] ELSE @[k]]]

RECURSIVE Interpreter_send(_, _, _, _)
RECURSIVE update(_, _, _, _, _)
RECURSIVE exec(_, _, _, _)
RECURSIVE flushTimeouts(_, _, _)

\* Interpreter.exec for a service without parent. The case of a send action
\* has no break and falls through to the case of cancel, where the action's
\* sendId is undefined. A started service is interpret(Machine(service)).start():
\* the actions of its initial state are executed, a send to '_parent' calling
\* this.parent.send
exec(I, action, c, d) ==
  CASE action.type = ActionTypes.Send ->
         Interpreter_cancel(
           IF action.to = "_parent" THEN I
           ELSE IF action.delay = <<>> \/ action.delay = <<0>>
           THEN [I EXCEPT !.eventQueue = Append(@, action.arg)]
           ELSE defer(I, action),
           "undefined")
    [] action.type = ActionTypes.Cancel -> Interpreter_cancel(I, action.arg)
    [] action.type = ActionTypes.Start ->
         IF \E pair \in options.services : pair[1] = action.arg
         THEN With(CHOOSE pair \in options.services : pair[1] = action.arg,
                   LAMBDA pair :
                update(I, initialState(pair[2], context, {}).state.actions,
                       <<>>, c, d))
         ELSE I
    [] OTHER -> I

\* the loop of Interpreter.update over state.actions, then the listeners are
\* given the state; with state = <<>> it is the loop of the child service's
\* update, in which only a send to '_parent' reaches this interpreter
update(I, actions, state, c, d) ==
  IF I.err # "" THEN I
  ELSE IF actions = <<>>
  THEN (IF state = <<>> THEN I
        ELSE [I EXCEPT !.notified = Append(@, state[1].value)])
  ELSE update(IF state # <<>> THEN exec(I, Head(actions), c, d)
              ELSE IF Head(actions).type = ActionTypes.Send
                      /\ Head(actions).to = "_parent"
              THEN Interpreter_send(I, Head(actions).arg, c, d - 1)
              ELSE I,
              Tail(actions), state, c, d)

\* Interpreter.send, with flushEventQueue at its end: one event is shifted
\* and, unless it is falsy, sent
Interpreter_send(I, E, c, d) ==
  IF ~I.initialized THEN [I EXCEPT !.err = "Uninitialized"]
  ELSE IF d <= 0 THEN [I EXCEPT !.err = "RangeError"]
  ELSE With(transition(machine, Instance(Argument(I.state[1])), E, c,
                       <<I.state[1].children>>, MaxDepth),
            LAMBDA r :
    IF r.err # "" THEN [I EXCEPT !.err = r.err]
    ELSE With(Observed(r.state, r.heap, <<Previous(I.state[1])>>, E),
              LAMBDA nextState :
      With(update([I EXCEPT !.state = <<nextState>>,
                            !.busy = TRUE,
                            !.overlapped = @ \/ I.busy,
                            !.processed = Append(@, nextState.value)],
                  nextState.actions, <<nextState>>, c, d),
           LAMBDA updated :
        IF updated.err # "" \/ updated.eventQueue = <<>>
        THEN [updated EXCEPT !.busy = I.busy]
        ELSE IF Head(updated.eventQueue) = NULL_EVENT
        THEN [updated EXCEPT !.busy = I.busy, !.eventQueue = Tail(@)]
        ELSE Interpreter_send([updated EXCEPT !.busy = I.busy,
                                              !.eventQueue = Tail(@)],
                              Head(updated.eventQueue), c, d - 1))))

\* SimulatedClock.flushTimeouts: Map.forEach visits the timeouts in the order
\* of their ids, those added during the loop included and those deleted
\* before their turn left out; lastId is the id visited last
flushTimeouts(I, lastId, c) ==
  With(SelectSeq(I.clock.timeouts, LAMBDA t : t.id > lastId), LAMBDA rest :
    IF I.err # "" \/ rest = <<>> THEN I
    ELSE IF I.clock.now - rest[1].start < rest[1].timeout
    THEN flushTimeouts(I, rest[1].id, c)
    ELSE With(Interpreter_send(
                [I EXCEPT !.sent = [k \in 1..Len(@) |->
                                      IF @[k].timer = rest[1].id
                                      THEN [@[k] EXCEPT !.delivered = @ + 1,
                                                        !.at = I.clock.now]
                                      ELSE @[k]]],
                rest[1].event, c, MaxSends),
              LAMBDA fired :
           IF fired.err # "" THEN fired
           ELSE flushTimeouts(
                  [fired EXCEPT !.clock.timeouts =
                                   SelectSeq(@, LAMBDA t : t.id # rest[1].id)],
                  rest[1].id, c)))

\* the interpreter at the beginning of a call from outside
Called(op) ==
  [service EXCEPT !.op = op, !.err = "", !.overlapped = FALSE,
                  !.processed = <<>>, !.notified = <<>>]

\* service.start(): update(this.machine.initialState)
Start ==
  /\ ~service.initialized
  /\ \E r \in {initialState(machine, context, cache)} :
       /\ r.err = ""
       /\ cache' = r.cache
       /\ \E S \in {Observed(r.state, r.heap, <<>>, initEvent)} :
            service' = [update([Called("start") EXCEPT
                                  !.initialized = TRUE, !.state = <<S>>,
                                  !.busy = TRUE, !.processed = <<S.value>>],
                               S.actions, <<S>>, r.cache, MaxSends)
                          EXCEPT !.busy = FALSE]
  /\ UNCHANGED <<machine, idMap, context, options, cur, last>>

\* service.send(E)
SendEvent(E) ==
  /\ service' = Interpreter_send(Called("send"), E, cache, MaxSends)
  /\ service'.clock.id <= MaxTimers
  /\ UNCHANGED <<machine, idMap, context, options, cache, cur, last>>

\* clock.increment(ms)
Increment(ms) ==
  /\ service.clock.now + ms <= MaxNow
  /\ service' = flushTimeouts([Called("increment") EXCEPT !.clock.now = @ + ms],
                              -1, cache)
  /\ UNCHANGED <<machine, idMap, context, options, cache, cur, last>>

\* interpret(Machine(ServiceCfg, { services: { svc: ChildCfg } }), { clock })
InterpreterInit ==
  /\ machine = "sv"
  /\ idMap = Machine(ServiceCfg) @@ Machine(ChildCfg)
  /\ context = [count |-> 0, isAdmin |-> FALSE]
  /\ options = [createDefaultOptions EXCEPT !.services = {<<"svc", "ch">>}]
  /\ cache = {}
  /\ cur = <<>>
  /\ last = [op |-> "new", event |-> "", input |-> <<>>, inputAfter |-> <<>>,
             err |-> "", log |-> <<>>, dropped |-> <<>>]
  /\ service = Interpreter

InterpreterNext ==
  \/ Start
  \/ \E E \in Events(machine) \cup {"A", "B", "C", "PONG"} : SendEvent(E)
  \/ \E ms \in {500, 1000} : Increment(ms)

InterpreterSpec == InterpreterInit /\ [][InterpreterNext]_vars


----------------------------------------------------------------------------
(* Properties of transition(S, E), stated on the record of the last call:   *)
(* `last.log` holds its microsteps, the first one for E, the others for the *)
(* eventless and the raised events it went on to process                    *)

\* the last call was a transition and returned a state
Returned == last.op \in {"transition", "transitionValue"} /\ last.err = ""

\* the microsteps of the last call that started from a state
Steps == {last.log[i] : i \in {j \in 1..Len(last.log) : ~last.log[j].initial}}
AllSteps == Range(last.log)

\* the state a microstep started from, as the selection reads it
Before(step) ==
  [value |-> step.prevValue, context |-> step.prevContext, historyValue |-> <<>>]

ActiveBefore(step) ==
  Range(getConfiguration(<<>>, getStateNodes(machine, step.prevValue)))

Sources(step) == {step.selected[i].source : i \in 1..Len(step.selected)}

Least(S) == CHOOSE i \in S : \A j \in S : i <= j

Positions(actions, wanted) == {k \in 1..Len(actions) : actions[k] \in Range(wanted)}

RECURSIVE subValue(_, _)
subValue(v, path) ==
  IF path = <<>> THEN v ELSE subValue(get(v, Head(path)), Tail(path))

RECURSIVE NodeAt(_, _)
NodeAt(n, path) ==
  IF path = <<>> THEN n ELSE NodeAt(getStateNode(n, Head(path)), Tail(path))

----------------------------------------------------------------------------
(* C1 *)

EventlessEnabled(S) ==
  With(_transition(machine, S.value, S, NULL_EVENT), LAMBDA st :
    st.err = "" /\ st.def /\ st.transitions # <<>>)

RaisedEvents == flatten([i \in 1..Len(last.log) |-> last.log[i].raised])
ProcessedEvents ==
  [i \in 1..(Len(last.log) - 1) |-> last.log[i + 1].event]

Quiescent ==
  /\ last.dropped = <<>>
  /\ \A e \in Range(RaisedEvents) \cup (Range(ProcessedEvents) \ {NULL_EVENT}) :
        Len(SelectSeq(RaisedEvents, LAMBDA x : x = e))
          = Len(SelectSeq(ProcessedEvents, LAMBDA x : x = e))
  /\ ~EventlessEnabled(cur[1])

\* C1, as stated: whenever transition(S, E) returns a state, every event
\* raised during the call has been processed and no eventless transition is
\* enabled in the returned state.  Violated: when nothing is selected for E
\* the state S is returned as it is, and when the root reaches its final
\* state the raised events of that microstep are not processed.
C1_Original == Returned => Quiescent

\* no microstep of the call left the root in its final state
NoDoneStep == \A i \in 1..Len(last.log) : ~last.log[i].done

\* C1, amended: when transition(S, E) selects a transition for E and no
\* microstep of the call leaves the root in its final state, every event
\* raised during the call has been processed by a microstep of its own and
\* no eventless transition is enabled in the returned configuration with the
\* returned context.
C1_RunToCompletion ==
  (Returned /\ last.log[1].selected # <<>> /\ NoDoneStep) => Quiescent

\* a call that raised an event and went on to process it
C1_Witness ==
  /\ Returned /\ last.log[1].selected # <<>> /\ NoDoneStep
  /\ last.log[1].raised # <<>>
  /\ Len(last.log) >= 2

----------------------------------------------------------------------------
(* C2 *)

Passing(n, step) ==
  With(next(n, Before(step), step.event), LAMBDA st :
    st.err = "" /\ st.def /\ st.transitions # <<>>)

\* the active nodes with a passing candidate below which no active node has one
Innermost(step) ==
  {n \in ActiveBefore(step) :
     /\ Passing(n, step)
     /\ \A d \in ActiveBefore(step) : isAncestor(n, d) => ~Passing(d, step)}

\* C2: in every microstep the transitions selected are those of the active
\* nodes that have a passing candidate and no active descendant with one: a
\* node is asked only when its active descendants selected nothing, the
\* nearest such ancestor is the one selected, and a selection at a
\* descendant keeps every ancestor from selecting.
C2_Bubbling == \A step \in Steps : Sources(step) = Innermost(step)

\* an event selected at a proper ancestor of the active leaf
C2_Witness ==
  \E step \in Steps : \E n \in Sources(step), d \in ActiveBefore(step) :
     isAncestor(n, d) /\ isLeafNode(d)

----------------------------------------------------------------------------
(* C3 *)

PassingCandidates(n, step) ==
  {i \in 1..Len(getCandidates(n, step.event)) :
     /\ getCandidates(n, step.event)[i].cond = NoCond
        \/ evaluateGuard(n, getCandidates(n, step.event)[i].cond, step.prevContext)
     /\ isInState(getCandidates(n, step.event)[i], Before(step))}

doorIdle == Prefix("closed", StrV("idle"))

\* C3: a transition selected at a node is the first of the node's candidates
\* for the event, in definition order, whose guard and in-state predicate
\* pass, and one node contributes at most one transition; in the door
\* machine OPEN from closed.idle gives 'opened' when isAdmin holds and
\* {closed: 'error'} when it does not.
C3_FirstPassing ==
  /\ \A step \in Steps : \A k \in 1..Len(step.selected) :
        /\ PassingCandidates(step.selected[k].source, step) # {}
        /\ step.selected[k]
             = getCandidates(step.selected[k].source, step.event)
                 [Least(PassingCandidates(step.selected[k].source, step))]
        /\ \A k2 \in 1..Len(step.selected) :
              step.selected[k2].source = step.selected[k].source => k2 = k
  /\ (machine = "door" /\ Returned /\ last.event = "OPEN"
      /\ last.log[1].prevValue = doorIdle)
     => cur[1].value = (IF last.log[1].prevContext.isAdmin THEN StrV("opened")
                        ELSE Prefix("closed", StrV("error")))

\* OPEN from closed.idle of the door machine with isAdmin true: both
\* candidates pass and the first one is taken
C3_Witness ==
  /\ machine = "door" /\ Returned /\ last.event = "OPEN"
  /\ last.log[1].prevValue = doorIdle
  /\ last.log[1].prevContext.isAdmin
  /\ Cardinality(PassingCandidates("door.closed", last.log[1])) = 2
  /\ cur[1].value = StrV("opened")

----------------------------------------------------------------------------
(* C4 *)

ActiveParallel(step) == {p \in ActiveBefore(step) : Node(p).type = "parallel"}

\* the selected transitions whose source lies in the region r
SelectedIn(step, r) ==
  SelectSeq(step.selected, LAMBDA t : t.source = r \/ isAncestor(r, t.source))

\* what the region selects when asked alone
Regional(step, r) ==
  _transition(r, subValue(step.prevValue, pathOf(r)), Before(step), step.event)

\* C4: for an active parallel node, the transitions selected in a region are
\* those the region selects when asked alone; when some region selected, the
\* targets of every region that selected are active in the resulting value
\* and the sub-value of every region that did not is kept; the parallel
\* node's own transition is selected only when no region selected anything.
C4_Regions ==
  \A step \in Steps : \A p \in ActiveParallel(step) :
     /\ \A r \in Range(getChildren(p)) :
           SelectedIn(step, r) = Regional(step, r).transitions
     /\ (\E q \in Range(getChildren(p)) : SelectedIn(step, q) # <<>>)
        => \A r \in Range(getChildren(p)) :
              IF SelectedIn(step, r) # <<>>
              THEN \A k \in 1..Len(SelectedIn(step, r)) :
                      \A x \in Range(SelectedIn(step, r)[k].target) :
                         isAncestor(r, x) => has(step.configuration, x)
              ELSE stateValuesEqual(subValue(step.value, pathOf(r)),
                                    subValue(step.prevValue, pathOf(r)))
     /\ p \in Sources(step)
        => \A r \in Range(getChildren(p)) : Regional(step, r).transitions = <<>>

\* one region selected a transition for the event and another did not
C4_Witness ==
  \E step \in Steps : \E p \in ActiveParallel(step) :
     \E r, q \in Range(getChildren(p)) :
        /\ SelectedIn(step, r) # <<>>
        /\ SelectedIn(step, q) = <<>>
        /\ ~stateValuesEqual(subValue(step.value, pathOf(r)),
                             subValue(step.prevValue, pathOf(r)))

----------------------------------------------------------------------------
(* C5 *)

InputConfiguration ==
  IF last.op = "transition" THEN last.input[1].configuration
  ELSE getConfiguration(<<>>, getStateNodes(machine, last.log[1].prevValue))

SameAsInput ==
  /\ cur[1].actions = <<>>
  /\ cur[1].value = last.log[1].prevValue
  /\ cur[1].context = last.log[1].prevContext
  /\ cur[1].configuration = InputConfiguration

----------------------------------------------------------------------------
(* C6 *)

\* the call transition(S, E) as a machine with every cache filled answers it
Warm ==
  transition(machine, Instance(Argument(last.input[1])), last.event,
             Lowerable(machine), <<last.input[1].children>>, MaxDepth)

\* C6: transition(S, E) returns the state it returns on a machine whose
\* caches are all filled, in value, context, actions, configuration and
\* historyValue, whatever calls were made on the machine before.
C6_Deterministic ==
  (last.op = "transition" /\ last.err = "")
  => /\ Warm.err = ""
     /\ Warm.state.value = cur[1].value
     /\ Warm.state.context = cur[1].context
     /\ Warm.state.actions = cur[1].actions
     /\ Warm.state.configuration = cur[1].configuration
     /\ Warm.state.historyValue = cur[1].historyValue

----------------------------------------------------------------------------
(* C7 *)

\* C7: a call of transition(S, E), returning or failing, leaves S as it was:
\* value, context, actions, children, historyValue and previous-state link.
C7_InputUnmodified ==
  last.op = "transition" => last.inputAfter = last.input

----------------------------------------------------------------------------
(* C8 *)

Closed(S) ==
  /\ \A i \in 1..Len(toStatePaths(S.value)) :
        \A a \in NodesOf(machine) :
           (a = NodeAt(machine, toStatePaths(S.value)[i])
            \/ isAncestor(a, NodeAt(machine, toStatePaths(S.value)[i])))
           => has(S.configuration, a)
  /\ \A p \in Range(S.configuration) :
        Node(p).type = "parallel"
        => \A r \in Range(getChildren(p)) : has(S.configuration, r)

\* C8: the configuration of every state produced by initialState,
\* resolveState or transition contains the leaves named in the state value
\* with all their ancestors up to the root, and every region of every
\* parallel node it contains.
C8_ConfigurationClosure == cur # <<>> => Closed(cur[1])

\* a transition inside one region of the parallel machine
C8_Witness ==
  /\ Returned /\ last.op = "transition" /\ last.log[1].selected # <<>>
  /\ \E p \in Range(cur[1].configuration) : Node(p).type = "parallel"
  /\ Len(toStatePaths(cur[1].value)) >= 2

----------------------------------------------------------------------------
(* C9 *)

delayedSend(a) == a.type = ActionTypes.Send /\ a.delay # <<>>

\* C9: the action list of a microstep is the exit actions of the exited
\* nodes, then the actions of the selected transitions, then the entry
\* actions of the entered nodes, then the raises of the done events; a cancel
\* in the list precedes every delayed send in it.
C9_ActionOrder ==
  \A step \in AllSteps :
     /\ step.actions
          = exitActions(step.exitStates, step.cache)
            \o flatten([k \in 1..Len(step.selected) |-> step.selected[k].actions])
            \o entryActions(step.entryStates, <<>>, step.cache)
            \o [k \in 1..Len(step.doneEvents) |-> raise(step.doneEvents[k])]
     /\ \A a, b \in 1..Len(step.actions) :
           (step.actions[a].type = ActionTypes.Cancel /\ delayedSend(step.actions[b]))
           => a < b

\* a microstep that leaves a state with a delayed transition for another one
C9_Witness ==
  \E step \in Steps : \E a, b \in 1..Len(step.actions) :
     /\ step.actions[a].type = ActionTypes.Cancel
     /\ delayedSend(step.actions[b])
     /\ step.exitStates # <<>> /\ step.entryStates # <<>>

----------------------------------------------------------------------------
(* C10 *)

ExitPositions(step, n) == Positions(step.actions, exitOf(n, step.cache))
EntryPositions(step, n) == Positions(step.actions, entryOf(n, step.cache))

\* C10: in a microstep the exited nodes are listed once each in descending
\* document order and the entered nodes once each in ascending document
\* order, their exit and entry actions appear once each and in the order of
\* the nodes, and the exit actions of a node precede its entry actions.
C10_ExitBeforeEntry ==
  \A step \in AllSteps :
     /\ \A a, b \in 1..Len(step.exitStates) :
           a < b => /\ order(step.exitStates[a]) > order(step.exitStates[b])
                    /\ \A x \in ExitPositions(step, step.exitStates[a]),
                          y \in ExitPositions(step, step.exitStates[b]) : x < y
     /\ \A a, b \in 1..Len(step.entryStates) :
           a < b => /\ order(step.entryStates[a]) < order(step.entryStates[b])
                    /\ \A x \in EntryPositions(step, step.entryStates[a]),
                          y \in EntryPositions(step, step.entryStates[b]) : x < y
     /\ \A n \in Range(step.exitStates) :
           Cardinality(ExitPositions(step, n)) = Len(exitOf(n, step.cache))
     /\ \A n \in Range(step.entryStates) :
           Cardinality(EntryPositions(step, n)) = Len(entryOf(n, step.cache))
     /\ \A n \in Range(step.exitStates) \cap Range(step.entryStates) :
           \A x \in ExitPositions(step, n), y \in EntryPositions(step, n) : x < y

\* an external transition that leaves both regions of the parallel node and
\* enters them again
C10_Witness ==
  \E step \in Steps :
     /\ Len(step.exitStates) >= 5
     /\ \E n \in Range(step.exitStates) \cap Range(step.entryStates) :
           ExitPositions(step, n) # {} /\ EntryPositions(step, n) # {}
     /\ \E n, k \in Range(step.exitStates) :
           ~isAncestor(n, k) /\ ~isAncestor(k, n) /\ n # k

----------------------------------------------------------------------------
(* C11 *)

Descendants(n) == {x \in NodesOf(machine) : isAncestor(n, x)}

Targeted(t) == t.hasTarget /\ t.target # <<>>

\* what config.on of the source declares for the transition: internal: true,
\* or without the flag a target that starts with the delimiter
DeclaredInternal(t) ==
  \E i \in 1..Len(Node(t.source).on) :
     LET cfg == Node(t.source).on[i]
     IN /\ cfg.event = t.eventType /\ cfg.cond = t.cond /\ cfg.actions = t.actions
        /\ cfg.hasTarget
        /\ IF cfg.internal = "unset"
           THEN \E j \in 1..Len(cfg.target) : cfg.target[j].dot
           ELSE cfg.internal = "true"

\* C11: a selected transition with a target that is internal (internal: true,
\* or by default a target that starts with the delimiter) neither exits nor
\* enters its source, and the descendants of the source that are exited and
\* entered are those that leave and join the configuration; an external one
\* exits its source and every active descendant of the source, and enters
\* the source again when a target lies inside it.
C11_InternalExternal ==
  \A step \in Steps : \A k \in 1..Len(step.selected) :
     Targeted(step.selected[k])
     => LET src == step.selected[k].source
        IN IF DeclaredInternal(step.selected[k])
           THEN /\ src \notin Range(step.exitStates)
                /\ src \notin Range(step.entryStates)
                /\ Range(step.exitStates) \cap Descendants(src)
                     = (ActiveBefore(step) \ Range(step.configuration))
                         \cap Descendants(src)
                /\ Range(step.entryStates) \cap Descendants(src)
                     = (Range(step.configuration) \ ActiveBefore(step))
                         \cap Descendants(src)
           ELSE /\ src \in Range(step.exitStates)
                /\ ActiveBefore(step) \cap Descendants(src)
                     \subseteq Range(step.exitStates)
                /\ (\E i \in 1..Len(step.selected[k].target) :
                       isAncestor(src, step.selected[k].target[i]))
                   => src \in Range(step.entryStates)

\* an internal transition of a node with entry and exit actions that moves
\* the configuration from one of its children to another
C11_Witness ==
  \E step \in Steps : \E k \in 1..Len(step.selected) :
     /\ Targeted(step.selected[k]) /\ DeclaredInternal(step.selected[k])
     /\ Node(step.selected[k].source).entry # <<>>
     /\ Node(step.selected[k].source).exit # <<>>
     /\ Range(step.exitStates) \cap Descendants(step.selected[k].source) # {}
     /\ Range(step.entryStates) \cap Descendants(step.selected[k].source) # {}

----------------------------------------------------------------------------
(* C12 *)

\* a microstep whose selected transitions all have no target
Targetless(step) ==
  /\ step.selected # <<>>
  /\ \A k \in 1..Len(step.selected) : ~Targeted(step.selected[k])

\* C12: a microstep whose selected transitions have no target exits no node
\* and enters none, leaves the value and the set of active nodes as they were,
\* and its action list is the actions of the selected transitions, with no
\* entry, exit, start or stop action.
C12_Targetless ==
  \A step \in Steps :
     Targetless(step)
     => /\ step.exitStates = <<>> /\ step.entryStates = <<>>
        /\ stateValuesEqual(step.value, step.prevValue)
        /\ Range(step.configuration) = ActiveBefore(step)
        /\ step.actions
             = flatten([k \in 1..Len(step.selected) |-> step.selected[k].actions])
        /\ \A a \in Range(step.actions) : a.type \notin {ActionTypes.Start, ActionTypes.Stop}

\* a transition without target, with actions of its own, taken in a node
\* that has entry and exit actions or an activity
C12_Witness ==
  \E step \in Steps :
     /\ Targetless(step) /\ step.actions # <<>>
     /\ \E n \in Sources(step) :
           \/ Node(n).entry # <<>> /\ Node(n).exit # <<>>
           \/ activitiesOf(n) # <<>>

----------------------------------------------------------------------------
(* C13 *)

\* the leaves reached from n through the initial child of every compound
\* node and every region of every parallel node
RECURSIVE InitialLeaves(_)
InitialLeaves(n) ==
  CASE Node(n).type = "compound" /\ Node(n).initial # "" ->
         InitialLeaves(getStateNode(n, Node(n).initial))
    [] Node(n).type = "parallel" ->
         UNION {InitialLeaves(c) : c \in {x \in Range(getChildren(n)) :
                                            Node(x).type # "history"}}
    [] OTHER -> {n}

\* the nodes a state value names as leaves, below n or n itself
LeavesBelow(v, n) ==
  {x \in {NodeAt(machine, toStatePaths(v)[i]) : i \in 1..Len(toStatePaths(v))} :
     x = n \/ isAncestor(n, x)}

\* every leaf entry names an atomic or final node by a string, every active
\* compound node has one active child and every active parallel node all of
\* its regions
Full(v) ==
  /\ \A i \in 1..Len(v) :
        v[i].t = "str" /\ isLeafNode(NodeAt(machine, v[i].p))
  /\ \A n \in NodesOf(machine) :
        LeavesBelow(v, n) # {}
        => CASE Node(n).type = "compound" ->
                  Cardinality({c \in Range(getChildren(n)) :
                                 LeavesBelow(v, c) # {}}) = 1
             [] Node(n).type = "parallel" ->
                  \A c \in Range(getChildren(n)) :
                     Node(c).type # "history" => LeavesBelow(v, c) # {}
             [] OTHER -> TRUE

lightYellow == StrV("yellow")

\* C13: a microstep that selects a transition to a compound or a parallel
\* node ends in a value whose leaves below the target are the ones reached
\* through the initial children, every region of a parallel node included
\* (TIMER from yellow gives {red: 'walk'}); the value of every microstep and
\* of the returned state is full.
C13_InitialDescent ==
  /\ \A step \in Steps :
        /\ Full(step.value)
        /\ \A k \in 1..Len(step.selected) :
              \A x \in Range(step.selected[k].target) :
                 Node(x).type \in {"compound", "parallel"}
                 => LeavesBelow(step.value, x) = InitialLeaves(x)
  /\ Returned => Full(cur[1].value)
  /\ (machine = "light" /\ Returned /\ last.event = "TIMER"
      /\ last.log[1].prevValue = lightYellow)
     => cur[1].value = Prefix("red", StrV("walk"))

\* a transition to a parallel node whose regions are compound
C13_Witness ==
  \E step \in Steps : \E k \in 1..Len(step.selected) :
     \E x \in Range(step.selected[k].target) :
        /\ Node(x).type = "parallel"
        /\ \E c \in Range(getChildren(x)) : Node(c).type = "compound"
        /\ Cardinality(LeavesBelow(step.value, x)) >= 2
        /\ ~(x \in ActiveBefore(step))

----------------------------------------------------------------------------
(* C14 *)

\* the history nodes among the targets of the transitions a microstep selected
HistoryTargets(step) ==
  {x \in UNION {Range(step.selected[k].target) : k \in 1..Len(step.selected)} :
     Node(x).type = "history"}

\* the child of C that is d or an ancestor of d
ChildToward(C, d) ==
  CHOOSE c \in Range(getChildren(C)) : c = d \/ isAncestor(c, d)

\* the state S the last call was made on, and the value of the state before S
CalledOn == last.input[1]
ValueBefore(S) == S.history[1].value

\* C14: when transition(S, E) selects a transition to a history node of C,
\* and C is not active in S but was active with the leaves D in the state
\* before S, the microstep enters below C exactly D for a deep history node,
\* and the initial leaves of the child of C towards D for a shallow one,
\* however the state before S had been reached.
C14_HistoryCorrect ==
  (last.op = "transition" /\ last.err = "" /\ CalledOn.history # <<>>)
  => \A h \in HistoryTargets(last.log[1]) :
        (/\ LeavesBelow(ValueBefore(CalledOn), parentOf(h)) # {}
         /\ LeavesBelow(CalledOn.value, parentOf(h)) = {})
        => LeavesBelow(last.log[1].value, parentOf(h))
             = IF Node(h).history = "deep"
               THEN LeavesBelow(ValueBefore(CalledOn), parentOf(h))
               ELSE UNION {InitialLeaves(ChildToward(parentOf(h), d)) :
                             d \in LeavesBelow(ValueBefore(CalledOn), parentOf(h))}

----------------------------------------------------------------------------
(* C15 *)

\* a state no transition produced: machine.initialState or a resolved State.from
ChainStart(S) == S.history = <<>> /\ S.event = initEvent

\* the states the client has held are the state it holds and at most the one
\* before it
FirstCalls ==
  /\ cur # <<>>
  /\ \/ ChainStart(cur[1])
     \/ last.op = "transitionValue" /\ last.err = ""
     \/ last.op = "transition" /\ last.err = "" /\ ChainStart(CalledOn)

\* C was active in none of them, nor in a microstep between them
NeverActive(C) ==
  /\ LeavesBelow(cur[1].value, C) = {}
  /\ cur[1].history # <<>> => LeavesBelow(ValueBefore(cur[1]), C) = {}
  /\ ~ChainStart(cur[1])
     => \A i \in 1..Len(last.log) : ~has(last.log[i].configuration, C)

\* the leaves the default of the history node h names: its declared target
\* and the initial descent below it, else the initial leaves of its parent
DefaultLeaves(h) ==
  IF Node(h).target = <<>> THEN InitialLeaves(parentOf(h))
  ELSE UNION {InitialLeaves(NodeAt(parentOf(h), toStatePaths(Node(h).target)[i])) :
                i \in 1..Len(toStatePaths(Node(h).target))}

\* C15: a call on the first or the second state of a client that selects a
\* transition to a history node whose parent has not been active so far
\* enters the history node's default: its declared target, or the initial
\* child of the parent when it declares none.
C15_DefaultTarget ==
  [][(FirstCalls /\ last'.op = "transition" /\ last'.err = "" /\ last'.input = cur)
     => \A h \in HistoryTargets(last'.log[1]) :
           NeverActive(parentOf(h))
           => LeavesBelow(last'.log[1].value, parentOf(h)) = DefaultLeaves(h)]_vars

----------------------------------------------------------------------------
(* C16 *)

\* n is in a final state in the value v: a compound node with a final child
\* active, a parallel node with every region in a final state
RECURSIVE InFinal(_, _)
InFinal(v, n) ==
  CASE Node(n).type = "compound" ->
         \E c \in Range(getChildren(n)) :
            Node(c).type = "final" /\ LeavesBelow(v, c) # {}
    [] Node(n).type = "parallel" ->
         \A c \in Range(getChildren(n)) : InFinal(v, c)
    [] OTHER -> FALSE

FinalEntered(step) == {F \in Range(step.entryStates) : Node(F).type = "final"}

----------------------------------------------------------------------------
(* C17 *)

rtcIdle == StrV("idle")

\* C17: every microstep after the first starts from the context the
\* microstep before it produced, so that the guard of an eventless
\* transition reads the result of the assigns; in the machine whose state
\* idle has INC assigning count + 1 and an eventless transition to full
\* guarded by count reaching MaxCount, INC from idle with count + 1 below
\* MaxCount returns idle with the count raised, and the INC that makes the
\* count MaxCount returns full with that count and changed = true.
C17_GuardAfterAssign ==
  /\ \A i \in 2..Len(last.log) :
        last.log[i].prevContext = last.log[i - 1].context
  /\ (machine = "rtc" /\ Returned /\ last.event = "INC"
      /\ last.log[1].prevValue = rtcIdle
      /\ last.log[1].prevContext.count < MaxCount)
     => /\ cur[1].context.count = last.log[1].prevContext.count + 1
        /\ IF cur[1].context.count = MaxCount
           THEN cur[1].value = StrV("full") /\ cur[1].changed = "true"
           ELSE cur[1].value = rtcIdle

\* the INC that raises the count to MaxCount: an assign, then the eventless
\* transition
C17_Witness ==
  /\ machine = "rtc" /\ Returned /\ last.op = "transition" /\ last.event = "INC"
  /\ last.log[1].prevValue = rtcIdle
  /\ last.log[1].prevContext.count = MaxCount - 1
  /\ Len(last.log) = 2 /\ last.log[2].event = NULL_EVENT
  /\ cur[1].value = StrV("full") /\ cur[1].context.count = MaxCount

----------------------------------------------------------------------------
(* C18 *)

\* a microstep of the call ran an assign action
RanAssign ==
  \E step \in Steps : \E a \in Range(step.actions) : a.type = ActionTypes.Assign

\* C18, for the events other than xstate.update (for which changed is true
\* whatever happens): the state returned by transition(S, E) has changed =
\* true exactly when the macrostep ran an assign, left actions to execute,
\* or ended in a value that differs structurally from S.value, and
\* changed = false otherwise.
C18_Changed ==
  (Returned /\ last.event # ActionTypes.Update)
  => cur[1].changed
       = bool(\/ RanAssign
              \/ cur[1].actions # <<>>
              \/ ~stateValuesEqual(cur[1].value, last.log[1].prevValue))

----------------------------------------------------------------------------
(* C19 *)

\* the errors transition is specified to fail with
DeclaredErrors == {"TransientLoop", "EventNotAccepted", "WildcardEvent"}

\* C19: every call of transition ends with a state or with a declared error:
\* a chain of eventless and raised microsteps that never reaches a stable
\* state is cut by the TransientLoop error, it does not recurse until the
\* call stack is exhausted.
C19_TransientLoop ==
  (last.op \in {"transition", "transitionValue"} /\ last.err # "")
  => last.err \in DeclaredErrors

----------------------------------------------------------------------------
(* C20 *)

\* a call of transition on a strict machine
StrictCall ==
  Node(machine).strict /\ last.op \in {"transition", "transitionValue"}

\* the type of the event sent is in machine.events
InAlphabet == last.event \in events(machine)

\* the call threw on the event sent, before any microstep was taken
RejectedOnE == last.err = "EventNotAccepted" /\ last.log = <<>>

\* the events raised by the microsteps the call took before it failed
RaisedSoFar == UNION {Range(last.log[i].raised) : i \in 1..Len(last.log)}

----------------------------------------------------------------------------
(* C21 *)

\* the guard of t is given by a name the machine's options do not define
MissingGuard(t) ==
  /\ t.cond # NoCond
  /\ t.cond.type # DEFAULT_GUARD_TYPE
  /\ t.cond.type \notin guards(machine)

\* the candidates of n for E whose guard is missing and before which no
\* candidate of n passes in S: the selection at n reaches them
ReachedMissing(n, S, E) ==
  {i \in 1..Len(getCandidates(n, E)) :
     /\ MissingGuard(getCandidates(n, E)[i])
     /\ \A j \in 1..(i - 1) :
           ~(/\ getCandidates(n, E)[j].cond = NoCond
                \/ (~MissingGuard(getCandidates(n, E)[j])
                    /\ evaluateGuard(n, getCandidates(n, E)[j].cond, S.context))
             /\ isInState(getCandidates(n, E)[j], S))}

\* the atomic state nodes active in S
ActiveLeaves(S) ==
  {n \in Range(getConfiguration(<<>>, getStateNodes(machine, S.value))) :
     isLeafNode(n)}

\* C21: a call transition(S, E) whose selection reaches, at an active atomic
\* node, a candidate whose guard the machine's options do not define fails
\* with the error of the missing guard; and in a call that returns a state,
\* no transition was selected after such a candidate: not a later candidate
\* of the same node, and not a transition of an ancestor of an active node
\* that has such a candidate.
C21_UnknownGuard ==
  /\ (/\ last.op = "transition"
      /\ last.err \notin {"WildcardEvent", "EventNotAccepted", "RangeError"}
      /\ \E n \in ActiveLeaves(CalledOn) :
            ReachedMissing(n, CalledOn, last.event) # {})
     => (last.err = "GuardNotImplemented" /\ last.log = <<>>)
  /\ Returned
     => \A step \in Steps : \A k \in 1..Len(step.selected) :
          /\ \A i \in 1..Len(getCandidates(step.selected[k].source, step.event)) :
                (/\ MissingGuard(getCandidates(step.selected[k].source, step.event)[i])
                 /\ i < Least(PassingCandidates(step.selected[k].source, step)))
                => FALSE
          /\ \A d \in ActiveBefore(step) :
                isAncestor(step.selected[k].source, d)
                => \A i \in 1..Len(getCandidates(d, step.event)) :
                      ~MissingGuard(getCandidates(d, step.event)[i])

\* KNOCK sent to the door in closed.idle: the first candidate of idle names
\* the guard isKnown, a later candidate of idle and a transition of closed
\* would accept the event, and the call fails
C21_Witness ==
  /\ machine = "door" /\ last.op = "transition" /\ last.event = "KNOCK"
  /\ CalledOn.value = doorIdle
  /\ ReachedMissing("door.closed.idle", CalledOn, "KNOCK") = {1}
  /\ Len(getCandidates("door.closed.idle", "KNOCK")) = 2
  /\ getCandidates("door.closed", "KNOCK") # <<>>
  /\ last.err = "GuardNotImplemented"

----------------------------------------------------------------------------
(* C22 *)

\* the candidates of n declared for the exact type of the step's event that
\* are enabled in the state the step started from
TypedEnabled(n, step) ==
  {i \in PassingCandidates(n, step) :
     getCandidates(n, step.event)[i].eventType = step.event}

\* C22: typed first, wildcard last: in every microstep a wildcard transition
\* is selected at a node only if no transition of that node declared for the
\* exact type of the event is enabled.
C22_TypedFirst ==
  \A step \in Steps : \A k \in 1..Len(step.selected) :
     step.selected[k].eventType = WILDCARD
     => TypedEnabled(step.selected[k].source, step) = {}

----------------------------------------------------------------------------
(* C23 *)

\* how many times the action a occurs in the action list of a microstep
Occurrences(step, a) ==
  Cardinality({k \in 1..Len(step.actions) : step.actions[k] = a})

\* C23: for a node with `after` delays, every microstep that enters the node
\* emits, for each declared delay, exactly one delayed send of the event
\* after(delay, node id), and every microstep that exits the node emits
\* exactly one cancel of that event.
C23_SendCancel ==
  \A step \in AllSteps : \A n \in NodesOf(machine) :
     \A i \in 1..Len(delaysOf(n)) :
        /\ has(step.entryStates, n)
           => Occurrences(step, send(after(delaysOf(n)[i], n),
                                     <<delaysOf(n)[i]>>)) = 1
        /\ has(step.exitStates, n)
           => Occurrences(step, cancel(after(delaysOf(n)[i], n))) = 1

----------------------------------------------------------------------------
(* C24 *)

\* a raise action, or a send to the machine itself
InternalEvent(a) == a.type = ActionTypes.Raise \/ (a.type = ActionTypes.Send /\ a.to = Internal)

\* the actions of the microsteps of the last call that selected a transition
RECURSIVE ActionsOfSteps(_)
ActionsOfSteps(log) ==
  IF log = <<>> THEN <<>>
  ELSE (IF Head(log).selected # <<>> THEN Head(log).actions ELSE <<>>)
       \o ActionsOfSteps(Tail(log))

\* C24: the action list of a state returned by transition holds no raise
\* action and no send to 'internal'; it is the actions of the microsteps
\* (their expressions resolved), in order, without the assigns and without
\* those raises and internal sends,
\* so that every other send is in it; and the events of the raises and
\* internal sends of a microstep are its raised events, in order.
C24_NoRaiseInActions ==
  Returned
  => /\ \A k \in 1..Len(cur[1].actions) : ~InternalEvent(cur[1].actions[k])
     /\ [k \in 1..Len(cur[1].actions) |-> [cur[1].actions[k] EXCEPT !.value = <<>>]]
          = SelectSeq(ActionsOfSteps(last.log),
                      LAMBDA a : a.type # ActionTypes.Assign /\ ~InternalEvent(a))
     /\ \A step \in Steps :
           step.raised
             = (IF step.selected = <<>> THEN <<>>
                ELSE With(SelectSeq(step.actions, InternalEvent), LAMBDA q :
                       [k \in 1..Len(q) |-> q[k].arg]))

\* a macrostep whose microsteps produced a send to 'internal', a raise and a
\* delayed send or another action that stays in the list
C24_Witness ==
  /\ Returned
  /\ \E step \in Steps : \E k \in 1..Len(step.actions) :
        step.actions[k].type = ActionTypes.Send /\ step.actions[k].to = Internal
  /\ cur[1].actions # <<>>

----------------------------------------------------------------------------
(* C25 *)

\* the names a registry defines, and the implementations it gives a name
Names(registry) == {e[1] : e \in registry}
Impls(registry, name) == {e[2] : e \in {x \in registry : x[1] = name}}

\* the machine the clone was made from, before and after the call
Original == last.input[1]
OriginalAfter == last.inputAfter[1]

----------------------------------------------------------------------------
(* C26 *)

\* the partial value the last call resolved
Partial == last.input[1].value

\* path p is path q or the beginning of it
IsPrefix(p, q) == Len(p) <= Len(q) /\ SubSeq(q, 1, Len(p)) = p

\* C26: for a partial value v of the machine (the path of a state node, or
\* {}), resolve(v) is full: its leaves are atomic nodes, every compound node
\* in it has exactly one child and every parallel node all its regions; it
\* keeps what v gives (every path of v leads to a leaf of resolve(v)), the
\* children v does not give are the initial ones, and resolving it again
\* changes nothing.
C26_Resolve ==
  last.op = "resolveState"
  => /\ Full(cur[1].value)
     /\ \A i \in 1..Len(toStatePaths(Partial)) :
           \E j \in 1..Len(toStatePaths(cur[1].value)) :
              IsPrefix(toStatePaths(Partial)[i], toStatePaths(cur[1].value)[j])
     /\ \A i \in 1..Len(toStatePaths(Partial)) :
           LeavesBelow(cur[1].value, NodeAt(machine, toStatePaths(Partial)[i]))
             = InitialLeaves(NodeAt(machine, toStatePaths(Partial)[i]))
     /\ resolve(machine, cur[1].value) = cur[1].value

\* a region of a parallel node given down to a leaf that is not its initial
\* one: the leaf is kept and the other region is filled in
C26_Witness ==
  /\ last.op = "resolveState"
  /\ \E n \in NodesOf(machine) :
        /\ Node(n).type = "parallel"
        /\ Cardinality(LeavesBelow(cur[1].value, n)) >= 2
        /\ LeavesBelow(cur[1].value, n) # InitialLeaves(n)
  /\ Len(toStatePaths(Partial)) = 1
  /\ cur[1].value # Partial

----------------------------------------------------------------------------
(* C27, C28 *)

\* the value of the state the strings were taken of
Stringified == last.input[1].value

\* the string of a path, its keys joined by the delimiter
RECURSIVE joined(_, _)
joined(path, delimiter) ==
  IF Len(path) = 1 THEN path[1]
  ELSE path[1] \o delimiter \o joined(Tail(path), delimiter)

\* C28: toStrings(value, delimiter) is exactly the leaf paths of the value,
\* one string for each active leaf, the keys of the path joined by the given
\* delimiter at every level.
C28_ToStrings ==
  last.op = "roundTrip"
  => /\ Len(last.strings) = Len(toStatePaths(Stringified))
     /\ Range(last.strings)
          = {joined(toStatePaths(Stringified)[i], last.input[1].delimiter) :
               i \in 1..Len(toStatePaths(Stringified))}

\* C27: resolve(toStateValue(toStrings(S.value))) = S.value, with the default
\* delimiter.
C27_RoundTrip ==
  (last.op = "roundTrip" /\ last.input[1].delimiter = ".")
  => last.err = "" /\ last.resolved = Stringified

----------------------------------------------------------------------------
(* C29 *)

\* a compound node without an initial key that names one of its children
InvalidInitial(n) ==
  Node(n).type = "compound" /\ ~has(Node(n).states, Node(n).initial)

\* the construction, or the last call, failed
Failed == last.err # ""

\* C29: the construction of a machine with a compound node that declares no
\* initial child, or one that is not among its children, fails; and no state
\* is produced in whose configuration a compound node has no active child.
C29_InitialRequired ==
  /\ (\E n \in NodesOf(machine) : InvalidInitial(n)) => (last.op = "new" /\ Failed)
  /\ cur # <<>>
       => \A n \in Range(cur[1].configuration) :
             Node(n).type = "compound"
               => \E c \in Range(cur[1].configuration) : parentOf(c) = n

----------------------------------------------------------------------------
(* C30 *)

\* the state nodes of the machine with the id
WithId(id) == {n \in NodesOf(machine) : idOf(Node(n), n) = id}

\* the ids the '#id' targets of the machine name
TargetIds ==
  UNION {UNION {{t.path[1] : t \in {x \in Range(Node(n).on[i].target) : x.hash}} :
                  i \in 1..Len(Node(n).on)} :
           n \in NodesOf(machine)}

\* C30: the construction of a machine in which two state nodes have the same
\* id fails, so the id of a '#id' target is never that of several nodes.
C30_UniqueIds ==
  /\ (\E n \in NodesOf(machine) : Cardinality(WithId(idOf(Node(n), n))) > 1)
       => (last.op = "new" /\ Failed)
  /\ \A id \in TargetIds : Cardinality(WithId(id)) = 1

----------------------------------------------------------------------------
(* C31 *)

\* C31: a state returned by transition has exactly one previous state, the
\* state the event was sent to, and that state has no previous state any
\* more: the chain of previous states has depth one, whatever the number of
\* raised or eventless microsteps of the call.
C31_HistoryDepth ==
  (Returned /\ last.op = "transition")
  => /\ Len(cur[1].history) = 1
     /\ cur[1].history[1].value = last.input[1].value
     /\ last.inputAfter[1].history = <<>>

\* a call with raised or eventless microsteps on a state that had a previous
\* state of its own
C31_Witness ==
  /\ Returned /\ last.op = "transition"
  /\ last.input[1].history # <<>>
  /\ Len(last.log) >= 2
  /\ cur[1].value # last.input[1].value

\* lenient.transition(stateValue, E) of the fresh lenient machine, for the call
\* the strict machine has just answered
Lenient ==
  transition(machine, Plain(last.input[1].value), last.event, cache, <<>>,
             MaxDepth)

\* C32: for every state value and every event of the alphabet, a strict
\* machine and the same machine without strict return equal states from
\* transition: either both throw, or both return and the states are equal
C32_StrictOnly ==
  last.op = "withoutStrict"
  => /\ Lenient.err = last.err
     /\ last.err = ""
        => <<Observed(Lenient.state, Lenient.heap, cur[1].history, last.event)>>
           = cur

\* the two machines were compared on a call that fired a transition
C32_Witness ==
  /\ last.op = "withoutStrict"
  /\ last.err = "" /\ Lenient.err = ""
  /\ last.log # <<>>
  /\ cur[1].value # last.input[1].value

\* a strict machine throws on an event of its alphabet, where the lenient one
\* returns a state
C32_Throws ==
  last.op = "withoutStrict" => (last.err = "" \/ Lenient.err # "")

\* the raised events of the microsteps log[i..] are the head of the queue, one
\* after the other, each microstep appending the events it raises
RECURSIVE Fifo(_, _, _)
Fifo(log, i, queue) ==
  IF i > Len(log) THEN TRUE
  ELSE IF log[i].event = NULL_EVENT /\ i > 1
  THEN Fifo(log, i + 1, queue \o log[i].raised)
  ELSE /\ queue # <<>>
       /\ Head(queue) = log[i].event
       /\ Fifo(log, i + 1, Tail(queue) \o log[i].raised)

\* C35: within one transition call the raised events are processed in the
\* order in which they were raised over the whole macrostep
C35_RaisedFifo ==
  (Returned /\ \A i \in 1..Len(last.log) : ~last.log[i].done)
  => Fifo(last.log, 1, <<last.event>>)

\* the assigns of a list applied one after the other, the first one to ctx
RECURSIVE Assigned(_, _)
Assigned(ctx, actions) ==
  IF actions = <<>> THEN ctx
  ELSE Assigned(IF Head(actions).type = ActionTypes.Assign
                THEN assigner(Head(actions).arg, ctx) ELSE ctx,
                Tail(actions))

\* C36: in every microstep the assigns are evaluated in list order from the
\* context the microstep started from, each one on the result of the previous
\* one; every log expression of the microstep is resolved against the context
\* they yield, and the returned state carries the context of the last
\* microstep
C36_AssignOrder ==
  Returned
  => /\ \A i \in 1..Len(last.log) :
           /\ last.log[i].context
                = Assigned(last.log[i].prevContext, last.log[i].actions)
           /\ \A k \in 1..Len(last.log[i].resolved) :
                 last.log[i].resolved[k].type = ActionTypes.Log
                 => last.log[i].resolved[k].value
                      = <<last.log[i].context[last.log[i].resolved[k].arg]>>
     /\ last.log # <<>> => cur[1].context = last.log[Len(last.log)].context

\* a microstep with a log action listed before two assigns, the second assign
\* changing what the first one wrote
C36_Witness ==
  /\ Returned
  /\ \E i \in 1..Len(last.log) :
        \E k, a, b \in 1..Len(last.log[i].actions) :
           /\ k < a /\ a < b
           /\ last.log[i].actions[k].type = ActionTypes.Log
           /\ last.log[i].actions[a].type = ActionTypes.Assign
           /\ last.log[i].actions[b].type = ActionTypes.Assign
           /\ last.log[i].context # last.log[i].prevContext
           /\ last.log[i].context
                # assigner(last.log[i].actions[b].arg, last.log[i].prevContext)
           /\ last.log[i].context
                # assigner(last.log[i].actions[a].arg, last.log[i].prevContext)

\* the keys a state value has at its top level
Keys(v) == {v[i].p[1] : i \in 1..Len(v)}

\* C37: a returned state's historyValue describes the state's own value:
\* the root's entry records state.value, and the entry of every compound node
\* active in state.value records the node's active child
C37_HistoryValueCurrent ==
  (Returned /\ cur[1].historyValue # <<>>)
  => /\ hvCurrent(cur[1].historyValue, machine) = cur[1].value
     /\ \A i \in 1..Len(cur[1].historyValue) :
           LET e == cur[1].historyValue[i]
           IN  (e.n # machine /\ has(cur[1].configuration, e.n))
               => Keys(e.current) = Keys(subValue(cur[1].value, pathOf(e.n)))

\* C38: when a microstep of a transition call puts the root into a final
\* state, no transition fires after it in the call: the returned value is the
\* value it reached, and the events it raised are not in the returned actions
C38_DoneStops ==
  Returned
  => \A i \in 1..Len(last.log) :
        (last.log[i].done /\ (last.log[i].selected # <<>> \/ last.log[i].initial))
        => /\ \A j \in (i + 1)..Len(last.log) : last.log[j].selected = <<>>
           /\ cur[1].value = last.log[i].value
           /\ \A k \in 1..Len(cur[1].actions) : ~isRaised(cur[1].actions[k])

\* C33: the interpreter processes events serially: no send begins while
\* another is between its transition and the end of its update, and the
\* listeners are given the states in the order in which they were reached
C33_Serial ==
  service.err = ""
  => /\ ~service.overlapped
     /\ service.notified = service.processed

\* C39: when start() or send() returns, the event queue is empty
C39_QueueEmpty ==
  (service.op \in {"start", "send"} /\ service.err = "")
  => service.eventQueue = <<>>

\* C40: a delayed send is delivered once, not before its delay has passed,
\* and by the time the clock has passed it, unless a cancel action with its
\* id was executed before, and then it is never delivered
C40_DelayedOnce ==
  \A k \in 1..Len(service.sent) :
     LET t == service.sent[k]
     IN  /\ t.delivered <= 1
         /\ t.delivered = 1 => t.at - t.start >= t.timeout
         /\ t.cancelled => t.delivered = 0
         /\ (~t.cancelled /\ service.op = "increment" /\ service.err = ""
             /\ service.clock.now - t.start >= t.timeout)
            => t.delivered = 1

\* the state values at most k transitions away from those of the set near
RECURSIVE Within(_, _)
Within(near, k) ==
  IF k = 0 THEN near
  ELSE Within(near \cup {last.adjacency[v][i].state :
                           v \in near, i \in 1..Len(eventsInOrder(machine))},
              k - 1)

\* the state value the events of a path lead to from the state value v
RECURSIVE Follow(_, _)
Follow(v, path) ==
  IF path = <<>> THEN v
  ELSE IF Head(path).state # v THEN Undef
  ELSE Follow(
         last.adjacency[v][CHOOSE i \in 1..Len(eventsInOrder(machine)) :
                             eventsInOrder(machine)[i] = Head(path).event].state,
         Tail(path))

\* C34: getShortestPaths maps every state value reachable from the initial
\* state to a path of events that leads to it from the initial state, no path
\* of fewer events does, and the path of the initial state is empty
C34_ShortestPaths ==
  (last.op = "getShortestPaths" /\ last.err = "")
  => /\ DOMAIN last.adjacency \subseteq DOMAIN last.paths
     /\ last.paths[last.initial] = <<>>
     /\ \A v \in DOMAIN last.paths :
           /\ Follow(last.initial, last.paths[v]) = v
           /\ \A k \in 0..(Len(last.paths[v]) - 1) :
                 v \notin Within({last.initial}, k)

====
